---------------------------- MODULE Spec2Model ----------------------------
(***************************************************************************)
(* Model of the sonification service (image -> WAV -> image codec).        *)
(*                                                                         *)
(* Byte buffers are sequences over 0..255, 16-bit PCM samples are integers *)
(* in -32768..32767.  A 32-bit unsigned value read from a buffer is kept   *)
(* as two 16-bit limbs [hi, lo] (value = hi * 65536 + lo), because values  *)
(* at or above 2^31 (the unsigned reading of a negative field) have to be  *)
(* represented exactly.                                                    *)
(*                                                                         *)
(* Platform services that the service calls but does not implement are     *)
(* represented by small coders with the same interface:                    *)
(*   - CompressionStream("deflate") / DecompressionStream("deflate") by a  *)
(*     run-length coder (lossless, changes the length, rejects malformed   *)
(*     streams);                                                           *)
(*   - canvas.toBlob(.., "image/jpeg", q) and the <img> decoder by a lossy *)
(*     coder that stores a two-byte marker, the dimensions and the         *)
(*     quantised colour channels.                                          *)
(***************************************************************************)
EXTENDS Integers, Naturals, Sequences, FiniteSets, TLC

(***************************************************************************)
(* Bounds of the model.                                                    *)
(***************************************************************************)
\* largest number of pixels of an image offered to the encoder
MaxPixels == 4
\* largest length of a hand-built buffer that is cut short or has no chunks
MaxShortLen == 5
\* largest number of pixels after the header of a hand-built container
MaxCraftPixels == 2
\* largest number of samples a cut sample stream keeps
MaxCut == 16
\* largest number of calls in flight side by side
MaxCalls == 2
\* largest number of conversions handleProcess starts
MaxConversions == 1

(***************************************************************************)
(* Program constants.                                                      *)
(***************************************************************************)
SAMPLE_RATE == 44100
BITS_PER_SAMPLE == 16
NUM_CHANNELS == 1
MAGIC_FULL == 1179995212
MAGIC_JPEG == 1246774599
\* the dimension limit of handleLegacyFormat
MAX_DIMENSION == 32768

Byte == 0..255

(***************************************************************************)
(* Sequence helpers.                                                       *)
(***************************************************************************)
Min(a, b) == IF a < b THEN a ELSE b
Max(a, b) == IF a > b THEN a ELSE b

(***************************************************************************)
(* Integer <-> bytes, little-endian.                                       *)
(***************************************************************************)
\* ToInt32 of an unsigned 32-bit value, which "&" and ">>" apply to their
\* left operand: values from 2^31 on become negative
ToInt32(u) ==
  IF u.hi >= 32768 THEN (u.hi - 65536) * 65536 + u.lo
  ELSE u.hi * 65536 + u.lo

\* variant: most significant byte first
int32ToBytes_BigEndian(value) ==
  << (value \div 16777216) % 256,
     (value \div 65536) % 256,
     (value \div 256) % 256,
     value % 256 >>

int32ToBytes(value) ==
  << value % 256,
     (value \div 256) % 256,
     (value \div 65536) % 256,
     (value \div 16777216) % 256 >>

int16ToBytes(value) ==
  << value % 256, (value \div 256) % 256 >>

\* bytes[k] of a typed array, 0-based; an index past the end reads as
\* undefined, which the bitwise operators turn into 0
ByteAt(bytes, k) == IF k + 1 <= Len(bytes) THEN bytes[k + 1] ELSE 0

\* the result of ">>> 0": an unsigned 32-bit value, as two 16-bit limbs
bytesToInt32(bytes, offset) ==
  [ lo |-> ByteAt(bytes, offset) + 256 * ByteAt(bytes, offset + 1),
    hi |-> ByteAt(bytes, offset + 2) + 256 * ByteAt(bytes, offset + 3) ]

\* the limbs of a number below 2^31
U32(n) == [lo |-> n % 65536, hi |-> n \div 65536]
\* a 32-bit value that is below 2^31 and so is an integer of the model
Fits(u) == u.hi < 32768
Val(u) == u.hi * 65536 + u.lo
\* variant: only the low 16 bits compared
U32Eq_LowHalf(u, n) == u.lo = n % 65536

U32Eq(u, n) == u = U32(n)
\* u > n for a number n below 2^31
U32Gt(u, n) == ~Fits(u) \/ Val(u) > n


(***************************************************************************)
(* Sample codec.                                                           *)
(***************************************************************************)
\* variant: the byte not centred on 128
byteToSample_Unsigned(byte) == byte * 256

byteToSample(byte) == (byte - 128) * 256

\* variant: the byte not clamped to 0..255
sampleToByte_NoClamp(sample) ==
  ((sample + 128) \div 256) + 128

\* variant: the midpoint taken as 127
sampleToByte_Mid127(sample) ==
  LET byte == ((sample + 128) \div 256) + 127
  IN  Max(0, Min(255, byte))

\* Math.round(sample / 256) rounds halves up: floor((sample + 128) / 256)
sampleToByte(sample) ==
  LET byte == ((sample + 128) \div 256) + 128
  IN  Max(0, Min(255, byte))

\* a store into an Int16Array element keeps the low 16 bits, signed
ToInt16(v) == ((v + 32768) % 65536) - 32768

\* the two bytes of one Int16Array element in the underlying buffer
Int16Bytes(s) == << (s % 65536) % 256, (s % 65536) \div 256 >>

\* new Uint8Array(audioData.buffer)
SamplesToBytes(ss) ==
  [k \in 1..(2 * Len(ss)) |-> Int16Bytes(ss[(k + 1) \div 2])[2 - (k % 2)]]

\* new Int16Array(buffer) over a buffer of even length
BytesToSamples(bs) ==
  [i \in 1..(Len(bs) \div 2) |->
     LET u == bs[2 * i - 1] + 256 * bs[2 * i]
     IN  IF u >= 32768 THEN u - 65536 ELSE u]

(***************************************************************************)
(* Audio container.                                                        *)
(***************************************************************************)
TagRIFF == <<82, 73, 70, 70>>
TagWAVE == <<87, 65, 86, 69>>
TagFmt  == <<102, 109, 116, 32>>
TagData == <<100, 97, 116, 97>>

\* variant: the block alignment counted in bits
createWavHeader_BlockBits(dataSize) ==
  LET byteRate == SAMPLE_RATE * NUM_CHANNELS * (BITS_PER_SAMPLE \div 8)
      blockAlign == NUM_CHANNELS * BITS_PER_SAMPLE
  IN  TagRIFF
      \o int32ToBytes(36 + dataSize)
      \o TagWAVE
      \o TagFmt
      \o int32ToBytes(16)
      \o int16ToBytes(1)
      \o int16ToBytes(NUM_CHANNELS)
      \o int32ToBytes(SAMPLE_RATE)
      \o int32ToBytes(byteRate)
      \o int16ToBytes(blockAlign)
      \o int16ToBytes(BITS_PER_SAMPLE)
      \o TagData
      \o int32ToBytes(dataSize)

createWavHeader(dataSize) ==
  LET byteRate == SAMPLE_RATE * NUM_CHANNELS * (BITS_PER_SAMPLE \div 8)
      blockAlign == NUM_CHANNELS * (BITS_PER_SAMPLE \div 8)
  IN  TagRIFF
      \o int32ToBytes(36 + dataSize)
      \o TagWAVE
      \o TagFmt
      \o int32ToBytes(16)
      \o int16ToBytes(1)
      \o int16ToBytes(NUM_CHANNELS)
      \o int32ToBytes(SAMPLE_RATE)
      \o int32ToBytes(byteRate)
      \o int16ToBytes(blockAlign)
      \o int16ToBytes(BITS_PER_SAMPLE)
      \o TagData
      \o int32ToBytes(dataSize)

\* variant: the data first, then the header bytes
WavSamples_DataFirst(data, headerBytes) ==
  [i \in 1..(Len(headerBytes) + Len(data)) |->
     IF i <= Len(data)
       THEN ToInt16(byteToSample(data[i]))
       ELSE ToInt16(byteToSample(headerBytes[i - Len(data)]))]

\* the Int16Array that bytesToWav fills: header bytes first, then the data
WavSamples(data, headerBytes) ==
  [i \in 1..(Len(headerBytes) + Len(data)) |->
     IF i <= Len(headerBytes)
       THEN ToInt16(byteToSample(headerBytes[i]))
       ELSE ToInt16(byteToSample(data[i - Len(headerBytes)]))]

\* variant: the data chunk declared in samples instead of bytes
bytesToWav_SampleCount(data, headerBytes) ==
  LET totalSamples == Len(headerBytes) + Len(data)
      audioDataSize == totalSamples
      wavHeader == createWavHeader(audioDataSize)
      wavData == SamplesToBytes(WavSamples(data, headerBytes))
  IN  wavHeader \o wavData

\* the bytes of the Blob that bytesToWav returns
bytesToWav(data, headerBytes) ==
  LET totalSamples == Len(headerBytes) + Len(data)
      audioDataSize == totalSamples * 2
      wavHeader == createWavHeader(audioDataSize)
      wavData == SamplesToBytes(WavSamples(data, headerBytes))
  IN  wavHeader \o wavData

(***************************************************************************)
(* Lossless byte compressor (stand-in for the platform's deflate streams). *)
(* Stream: one format byte, then runs of three bytes: the run length as a   *)
(* 16-bit little-endian number, and the value.                             *)
(***************************************************************************)
StreamTag == <<120>>

RECURSIVE RunLength(_, _)
RunLength(data, v) ==
  IF data = << >> \/ Head(data) # v THEN 0
  ELSE 1 + RunLength(Tail(data), v)

RECURSIVE Runs(_)
Runs(data) ==
  IF data = << >> THEN << >>
  ELSE LET n == Min(65535, RunLength(data, Head(data)))
       IN  int16ToBytes(n) \o <<Head(data)>>
             \o Runs(SubSeq(data, n + 1, Len(data)))

compressData(data) == StreamTag \o Runs(data)

RECURSIVE Expand(_)
Expand(runs) ==
  IF runs = << >> THEN << >>
  ELSE [i \in 1..(runs[1] + 256 * runs[2]) |-> runs[3]]
         \o Expand(SubSeq(runs, 4, Len(runs)))

\* the stream is rejected (the promise rejects) when it is not well formed
decompressData(data) ==
  IF /\ Len(data) >= 1
     /\ <<data[1]>> = StreamTag
     /\ (Len(data) - 1) % 3 = 0
     /\ \A k \in 1..((Len(data) - 1) \div 3) :
          data[3 * k - 1] + 256 * data[3 * k] >= 1
  THEN [ok |-> TRUE, data |-> Expand(Tail(data))]
  ELSE [ok |-> FALSE, data |-> << >>]

(***************************************************************************)
(* Raster services (stand-ins for the browser's image decoder and canvas). *)
(* A file is [isImage, width, height, data]: data is what getImageData     *)
(* yields for it, RGBA, row-major.                                         *)
(***************************************************************************)
\* extractRawPixelData: rejects with "Failed to load image" via img.onerror
extractRawPixelData(file) ==
  IF file.isImage
    THEN [ok |-> TRUE, width |-> file.width, height |-> file.height,
          data |-> file.data]
    ELSE [ok |-> FALSE, width |-> 0, height |-> 0, data |-> << >>]

\* the colour channels of the pixels, alpha dropped, quantised: lossy
RECURSIVE Quantise(_)
Quantise(data) ==
  IF Len(data) < 4 THEN << >>
  ELSE << (data[1] \div 64) * 64, (data[2] \div 64) * 64,
          (data[3] \div 64) * 64 >>
       \o Quantise(SubSeq(data, 5, Len(data)))

\* imageToJpegBlob, followed by jpegBlob.arrayBuffer()
imageToJpegBlob(file) ==
  IF file.isImage
    THEN [ok |-> TRUE,
          data |-> <<255, 216, file.width, file.height>> \o Quantise(file.data)]
    ELSE [ok |-> FALSE, data |-> << >>]


\* a typed array of `size` bytes whose first Len(head) bytes were written
\* from samples that exist; the remaining size - Len(head) bytes are 0 (the
\* buffer is zero-initialised and a store of NaN, from a sample index past
\* the end of the stream, is a store of 0)
Filled(buf) == buf.size - Len(buf.head)

\* getImageDimensions on a Blob of the lossy coder: the <img> element loads
\* a complete stream (marker, non-zero dimensions, three bytes per pixel,
\* none of them filled in) and fires onerror on anything else
getImageDimensions(blob) ==
  IF /\ blob.size >= 4
     /\ Len(blob.head) = blob.size
     /\ blob.head[1] = 255 /\ blob.head[2] = 216
     /\ blob.head[3] >= 1 /\ blob.head[4] >= 1
     /\ blob.size = 4 + 3 * blob.head[3] * blob.head[4]
  THEN [ok |-> TRUE, width |-> blob.head[3], height |-> blob.head[4]]
  ELSE [ok |-> FALSE, width |-> 0, height |-> 0]

\* variant: the rows are not compared with the height
ImageDataOk_AnyHeight(size, width, height) ==
  /\ size > 0
  /\ size % 4 = 0
  /\ Fits(width) /\ Fits(height)
  /\ Val(width) >= 1
  /\ Val(width) <= size \div 4
  /\ (size \div 4) % Val(width) = 0

\* new ImageData(pixelData, width, height) throws unless the data length is
\* a non-zero multiple of 4 * width and height is the number of rows
ImageDataOk(size, width, height) ==
  /\ size > 0
  /\ size % 4 = 0
  /\ Fits(width) /\ Fits(height)
  /\ Val(width) >= 1
  /\ Val(width) <= size \div 4
  /\ (size \div 4) % Val(width) = 0
  /\ Val(height) = (size \div 4) \div Val(width)

(***************************************************************************)
(* imageToAudio.                                                           *)
(***************************************************************************)
\* variant: the length field counts the header too
JpegHeader_TotalLength(jpegData) ==
  int32ToBytes(MAGIC_JPEG) \o int32ToBytes(Len(jpegData) + 8)

\* the header of the compressed strategy: magic, jpeg length
JpegHeader(jpegData) ==
  int32ToBytes(MAGIC_JPEG) \o int32ToBytes(Len(jpegData))

\* variant: height written before width
FullHeader_Swapped(rawData, originalSize) ==
  int32ToBytes(MAGIC_FULL) \o int32ToBytes(rawData.height)
    \o int32ToBytes(rawData.width) \o int32ToBytes(originalSize)

\* the header of the full strategy: magic, width, height, original size
FullHeader(rawData, originalSize) ==
  int32ToBytes(MAGIC_FULL) \o int32ToBytes(rawData.width)
    \o int32ToBytes(rawData.height) \o int32ToBytes(originalSize)

(***************************************************************************)
(* audioToImage.                                                           *)
(***************************************************************************)
ErrRiff      == "Invalid WAV file: missing RIFF header"
ErrSize      == "Size mismatch"
ErrDims      == "Invalid image dimensions"
ErrLoad      == "Failed to load image"
ErrRange     == "RangeError"
ErrImageData == "ImageData: IndexSizeError"
ErrInflate   == "TypeError: decompression failed"

\* the four getUint8 calls of the RIFF check throw a RangeError when the
\* buffer is shorter than 4 bytes
RiffCheck(buf) ==
  IF Len(buf) < 4 THEN ErrRange
  ELSE IF SubSeq(buf, 1, 4) # TagRIFF THEN ErrRiff
  ELSE "ok"

\* the loop that looks for the data chunk; `found` records whether it left
\* through the break.  A chunk size of 65536 or more points past the end of
\* every buffer of the model: the offset is then kept as "past the end"
\* (Len(buf) + 8), which the loop test and slice() treat alike.
RECURSIVE ChunkScan(_, _)
ChunkScan(buf, offset) ==
  IF offset < Len(buf) - 8
    THEN LET chunkId == SubSeq(buf, offset + 1, offset + 4)
             chunkSize == bytesToInt32(buf, offset + 4)
         IN  IF chunkId = TagData
               THEN [offset |-> offset + 8, found |-> TRUE]
               ELSE IF chunkSize.hi > 0
                 THEN [offset |-> Len(buf) + 8, found |-> FALSE]
                 ELSE ChunkScan(buf, offset + 8 + chunkSize.lo)
    ELSE [offset |-> offset, found |-> FALSE]

\* the locals of the loop before its first test
ScanFrom(offset) ==
  [offset |-> offset, found |-> FALSE, steps |-> 0, highest |-> 3]

\* variant: the 8 bytes of tag and size not skipped
ScanIteration_NoSkip(buf, scan) ==
  LET chunkId == SubSeq(buf, scan.offset + 1, scan.offset + 4)
      chunkSize == bytesToInt32(buf, scan.offset + 4)
      read == [scan EXCEPT !.steps = scan.steps + 1,
                           !.highest = Max(scan.highest, scan.offset + 7)]
  IN  IF chunkId = TagData
        THEN [read EXCEPT !.offset = scan.offset + 8, !.found = TRUE]
      ELSE IF chunkSize.hi > 0
        THEN [read EXCEPT !.offset = Len(buf) + 8]
      ELSE [read EXCEPT !.offset = scan.offset + chunkSize.lo]

\* one pass through the body of the loop, entered with offset <
\* byteLength - 8: the eight getUint8 / getUint32 reads reach offset + 7;
\* `steps` counts the passes and `highest` keeps the highest index read so
\* far (3 after the RIFF check).  Chunk sizes of 65536 or more as in ChunkScan.
ScanIteration(buf, scan) ==
  LET chunkId == SubSeq(buf, scan.offset + 1, scan.offset + 4)
      chunkSize == bytesToInt32(buf, scan.offset + 4)
      read == [scan EXCEPT !.steps = scan.steps + 1,
                           !.highest = Max(scan.highest, scan.offset + 7)]
  IN  IF chunkId = TagData
        THEN [read EXCEPT !.offset = scan.offset + 8, !.found = TRUE]
      ELSE IF chunkSize.hi > 0
        THEN [read EXCEPT !.offset = Len(buf) + 8]
      ELSE [read EXCEPT !.offset = scan.offset + 8 + chunkSize.lo]

\* offset < arrayBuffer.byteLength - 8, and no break yet
ScanGoesOn(buf, scan) == ~scan.found /\ scan.offset < Len(buf) - 8

\* arrayBuffer.slice(offset)
SliceFrom(buf, offset) ==
  IF offset >= Len(buf) THEN << >> ELSE SubSeq(buf, offset + 1, Len(buf))

\* sampleToByte(samples[i]) stored into a typed array, i counted from 0: a
\* sample past the end is undefined, sampleToByte gives NaN, the store 0
SampleByte(samples, i) ==
  IF i < Len(samples) THEN sampleToByte(samples[i + 1]) ELSE 0

\* the loops "for i < n: bytes[i] = sampleToByte(samples[i])"
ReadHeader(samples, n) == [i \in 1..n |-> SampleByte(samples, i - 1)]

\* variant: the body read from one sample too early
ReadBody_OneEarly(samples, from, size) ==
  [ size |-> size,
    head |-> [i \in 1..Max(0, Min(size, Len(samples) - from)) |->
                sampleToByte(samples[from + i - 1])] ]

\* the loops "for i < size: bytes[i] = sampleToByte(samples[from + i])"
ReadBody(samples, from, size) ==
  [ size |-> size,
    head |-> [i \in 1..Max(0, Min(size, Len(samples) - from)) |->
                sampleToByte(samples[from + i])] ]

\* variant: the two magic values taken for each other
Classify_Swapped(magic) ==
  IF U32Eq(magic, MAGIC_FULL) THEN "jpeg"
  ELSE IF U32Eq(magic, MAGIC_JPEG) THEN "full"
  ELSE "legacy"

\* magic === MAGIC_JPEG / MAGIC_FULL, else legacy
Classify(magic) ==
  IF U32Eq(magic, MAGIC_JPEG) THEN "jpeg"
  ELSE IF U32Eq(magic, MAGIC_FULL) THEN "full"
  ELSE "legacy"

\* width <= 0 || width > 32768 || height <= 0 || height > 32768
DimensionsInvalid(width, height) ==
  \/ (Fits(width) /\ Val(width) <= 0)
  \/ U32Gt(width, MAX_DIMENSION)
  \/ (Fits(height) /\ Val(height) <= 0)
  \/ U32Gt(height, MAX_DIMENSION)

NoDec ==
  [ path |-> "none", samples |-> << >>, offset |-> 0, found |-> FALSE,
    width |-> U32(0), height |-> U32(0), declared |-> U32(0),
    data |-> [size |-> 0, head |-> << >>],
    inflated |-> [ran |-> FALSE, ok |-> FALSE, data |-> << >>] ]

\* variant: only data longer than declared is rejected
SizeMismatch_OnlyLonger(rawPixelData, originalSize) ==
  Fits(originalSize) /\ Len(rawPixelData) > Val(originalSize)

\* rawPixelData.length !== originalSize
SizeMismatch(rawPixelData, originalSize) ==
  U32(Len(rawPixelData)) # originalSize

Failure(msg) ==
  [ status |-> "error", error |-> msg, path |-> "none",
    width |-> U32(0), height |-> U32(0),
    data |-> [size |-> 0, head |-> << >>] ]

Success(path, width, height, data) ==
  [ status |-> "ok", error |-> "", path |-> path,
    width |-> width, height |-> height, data |-> data ]

NoImage ==
  [ status |-> "none", error |-> "", path |-> "none",
    width |-> U32(0), height |-> U32(0),
    data |-> [size |-> 0, head |-> << >>] ]


\* handleLegacyFormat up to its await: the header, the dimension check, the
\* pixel buffer and the ImageData.  An ArrayBuffer of 2^31 bytes or more is
\* taken to be over the engine's limit (RangeError).
handleLegacyFormat(samples) ==
  LET legacyHeader == ReadHeader(samples, 12)
      width == bytesToInt32(legacyHeader, 0)
      height == bytesToInt32(legacyHeader, 4)
      channels == bytesToInt32(legacyHeader, 8)
      area == Val(width) * Val(height)
      allocates == channels.hi = 0 /\
                   (channels.lo = 0 \/ area <= 2147483647 \div channels.lo)
      expectedSize == area * channels.lo
      pixelData == ReadBody(samples, 12, expectedSize)
      locals == [NoDec EXCEPT !.path = "legacy", !.samples = samples,
                              !.width = width, !.height = height,
                              !.declared = channels]
  IN  IF DimensionsInvalid(width, height)
        THEN [pc |-> "done", dec |-> locals, image |-> Failure(ErrDims)]
      ELSE IF ~allocates
        THEN [pc |-> "done", dec |-> locals, image |-> Failure(ErrRange)]
      ELSE IF ~ImageDataOk(expectedSize, width, height)
        THEN [pc |-> "done", dec |-> locals, image |-> Failure(ErrImageData)]
      ELSE [pc |-> "dec_toBlob", dec |-> [locals EXCEPT !.data = pixelData],
            image |-> NoImage]

\* the compressed branch up to "await getImageDimensions".  A typed array
\* of 2^31 elements or more is taken to be over the engine's limit.
JpegBranch(samples) ==
  LET headerBytes == ReadHeader(samples, 8)
      jpegLength == bytesToInt32(headerBytes, 4)
      locals == [NoDec EXCEPT !.path = "jpeg", !.samples = samples,
                              !.declared = jpegLength]
  IN  IF ~Fits(jpegLength)
        THEN [pc |-> "done", dec |-> locals, image |-> Failure(ErrRange)]
      ELSE [pc |-> "dec_dimensions",
            dec |-> [locals EXCEPT
                       !.data = ReadBody(samples, 8, Val(jpegLength))],
            image |-> NoImage]

\* the full branch up to "await decompressData": new Uint8Array of a
\* negative length throws a RangeError
FullBranch(samples) ==
  LET headerBytes == ReadHeader(samples, 16)
      width == bytesToInt32(headerBytes, 4)
      height == bytesToInt32(headerBytes, 8)
      originalSize == bytesToInt32(headerBytes, 12)
      compressedLength == Len(samples) - 16
      locals == [NoDec EXCEPT !.path = "full", !.samples = samples,
                              !.width = width, !.height = height,
                              !.declared = originalSize]
  IN  IF compressedLength < 0
        THEN [pc |-> "done", dec |-> locals, image |-> Failure(ErrRange)]
      ELSE [pc |-> "dec_decompress",
            dec |-> [locals EXCEPT
                       !.data = ReadBody(samples, 16, compressedLength)],
            image |-> NoImage]

\* audioToImage from the resolution of file.arrayBuffer() to its next await
\* (or to the throw).  new Int16Array(buffer) throws a RangeError when the
\* byte length of the slice is odd.
audioToImage(buf) ==
  LET scan == ChunkScan(buf, 12)
      rest == SliceFrom(buf, scan.offset)
      samples == BytesToSamples(rest)
      magic == bytesToInt32(ReadHeader(samples, 4), 0)
      branch == IF Classify(magic) = "jpeg" THEN JpegBranch(samples)
                ELSE IF Classify(magic) = "full" THEN FullBranch(samples)
                ELSE handleLegacyFormat(samples)
  IN  IF RiffCheck(buf) # "ok"
        THEN [pc |-> "done", dec |-> NoDec, image |-> Failure(RiffCheck(buf))]
      ELSE IF Len(rest) % 2 # 0
        THEN [pc |-> "done",
              dec |-> [NoDec EXCEPT !.offset = scan.offset,
                                    !.found = scan.found],
              image |-> Failure(ErrRange)]
      ELSE [branch EXCEPT !.dec.offset = scan.offset,
                          !.dec.found = scan.found]


(***************************************************************************)
(* Inputs.                                                                 *)
(***************************************************************************)
\* RGBA values a pixel of an input image takes
Palette ==
  { <<0, 0, 0, 255>>, <<255, 255, 255, 255>>, <<255, 0, 0, 255>>,
    <<1, 127, 128, 254>> }

\* byte sizes an input file has on disk
FileSizes == {8, 200}

Shapes ==
  { sh \in (1..MaxPixels) \X (1..MaxPixels) : sh[1] * sh[2] <= MaxPixels }

RECURSIVE Flatten(_)
Flatten(pixels) ==
  IF pixels = << >> THEN << >> ELSE Head(pixels) \o Flatten(Tail(pixels))

ImageFiles ==
  UNION { { [isImage |-> TRUE, width |-> sh[1], height |-> sh[2],
             data |-> Flatten(px), size |-> sz] :
              px \in [1..(sh[1] * sh[2]) -> Palette], sz \in FileSizes } :
          sh \in Shapes }

NotAnImage ==
  [isImage |-> FALSE, width |-> 0, height |-> 0, data |-> << >>, size |-> 8]

NoFile ==
  [isImage |-> FALSE, width |-> 0, height |-> 0, data |-> << >>, size |-> 0]

NoEnc ==
  [ width |-> 0, height |-> 0, raw |-> << >>, originalSize |-> 0,
    headerBytes |-> << >>, dataToEncode |-> << >> ]

NoAudio ==
  [ status |-> "none", error |-> "", blob |-> << >>, totalSamples |-> 0,
    ratioNum |-> 0, ratioDen |-> 0 ]

NoWav == [bytes |-> << >>, origin |-> "none"]

(***************************************************************************)
(* Hand-built containers.                                                  *)
(***************************************************************************)
\* values of a 32-bit dimension field: the limits, their neighbours, -1
DimFields ==
  { int32ToBytes(0), int32ToBytes(1), int32ToBytes(2),
    int32ToBytes(MAX_DIMENSION), int32ToBytes(MAX_DIMENSION + 1),
    <<255, 255, 255, 255>> }

\* raw pixel runs of 1..MaxCraftPixels pixels
CraftRaws ==
  UNION { { Flatten(px) : px \in [1..n -> Palette] } :
          n \in 1..MaxCraftPixels }

\* a compressed stream and two damaged copies of it: the first run made one
\* longer, the last byte lost
Damaged(stream) ==
  { stream,
    [stream EXCEPT ![2] = stream[2] + 1],
    SubSeq(stream, 1, Len(stream) - 1) }

FullInners ==
  UNION { { int32ToBytes(MAGIC_FULL) \o w \o h
              \o int32ToBytes(Len(raw) + d) \o z :
              w \in DimFields, h \in DimFields, d \in {0, 4},
              z \in Damaged(compressData(raw)) } :
          raw \in CraftRaws }

\* a full container of 32769 x 1 transparent black pixels: 131076 bytes in
\* runs of at most 65535
RECURSIVE ZeroRuns(_)
ZeroRuns(n) ==
  IF n = 0 THEN << >>
  ELSE int16ToBytes(Min(65535, n)) \o <<0>> \o ZeroRuns(n - Min(65535, n))

WideFullInner ==
  int32ToBytes(MAGIC_FULL) \o int32ToBytes(MAX_DIMENSION + 1)
    \o int32ToBytes(1) \o int32ToBytes((MAX_DIMENSION + 1) * 4)
    \o StreamTag \o ZeroRuns((MAX_DIMENSION + 1) * 4)

\* legacy headers with any pair of dimension fields, of which at most one
\* is large, 4, 3 or 0 channels, and one or more pixels after the header
LegacyInners ==
  { w \o h \o int32ToBytes(c) \o raw :
      w \in DimFields, h \in DimFields, c \in {4, 3, 0}, raw \in CraftRaws }
  \ { int32ToBytes(MAX_DIMENSION) \o int32ToBytes(MAX_DIMENSION)
        \o int32ToBytes(c) \o raw : c \in {4, 3, 0}, raw \in CraftRaws }

\* legacy streams of one row whose width has the low 16 bits of a magic value
\* (0x4C4C, 0x4547), with the first pixels of the row
MagicLowWidths == {MAGIC_FULL % 65536, MAGIC_JPEG % 65536}

WideLegacyInners ==
  { int32ToBytes(w) \o int32ToBytes(1) \o int32ToBytes(4) \o raw :
      w \in MagicLowWidths, raw \in CraftRaws }

\* compressed headers whose length field is right, short, long, zero or -1
JpegInners ==
  UNION { LET z == imageToJpegBlob(f).data
          IN  { int32ToBytes(MAGIC_JPEG) \o n \o z :
                  n \in { int32ToBytes(Len(z)), int32ToBytes(Len(z) - 1),
                          int32ToBytes(Len(z) + 3), int32ToBytes(0),
                          <<255, 255, 255, 255>> } } :
          f \in { g \in ImageFiles :
                    g.width * g.height <= MaxCraftPixels /\ g.size = 8 } }

\* one well-formed stream of each kind, to cut short and to frame badly
SampleInners ==
  { int32ToBytes(MAGIC_FULL) \o int32ToBytes(1) \o int32ToBytes(1)
      \o int32ToBytes(4) \o compressData(<<255, 0, 0, 255>>),
    int32ToBytes(1) \o int32ToBytes(1) \o int32ToBytes(4)
      \o <<255, 0, 0, 255>>,
    int32ToBytes(MAGIC_JPEG) \o int32ToBytes(7)
      \o <<255, 216, 1, 1, 192, 0, 0>> }

\* four leading bytes that are almost a magic value: one byte of it one
\* higher, its bytes in the opposite order, one 16-bit half of it cleared
NearMagics ==
  UNION { { [m EXCEPT ![k] = m[k] + 1] : k \in 1..4 }
            \cup { <<m[4], m[3], m[2], m[1]>>,
                   <<m[1], m[2], 0, 0>>, <<0, 0, m[3], m[4]>> } :
          m \in {int32ToBytes(MAGIC_FULL), int32ToBytes(MAGIC_JPEG)} }

\* a stream that starts with an almost-magic value and goes on as a
\* header of either kind would
NearMagicInners ==
  { m \o SubSeq(inner, 5, Len(inner)) :
      m \in NearMagics, inner \in SampleInners }

ListChunk(size) == <<76, 73, 83, 84>> \o size \o <<1, 2, 3, 4>>

\* ways a file is put together around a stream of samples
Framings ==
  { "badtag", "lowertag", "nodata", "list", "oversize", "trailing", "bare",
    "odd", "empty", "empties", "past", "dataless" }

\* a chunk without content
EmptyChunk == <<74, 85, 78, 75, 0, 0, 0, 0>>

Frame(kind, inner) ==
  LET w == bytesToWav(inner, << >>)
  IN  CASE kind = "badtag"   -> [w EXCEPT ![1] = 88]
        [] kind = "lowertag" -> <<114, 105, 102, 102>> \o SubSeq(w, 5, Len(w))
        [] kind = "nodata"   -> [w EXCEPT ![40] = 95]
        [] kind = "list"     -> SubSeq(w, 1, 12) \o ListChunk(int32ToBytes(4))
                                  \o SubSeq(w, 13, Len(w))
        [] kind = "oversize" -> SubSeq(w, 1, 12) \o ListChunk(<<0, 0, 1, 0>>)
                                  \o SubSeq(w, 13, Len(w))
        [] kind = "trailing" -> w \o ListChunk(int32ToBytes(4))
        [] kind = "bare"     -> SubSeq(w, 1, 12) \o SubSeq(w, 45, 52)
        [] kind = "odd"      -> SubSeq(w, 1, Len(w) - 1)
        [] kind = "empty"    -> SubSeq(w, 1, 12) \o EmptyChunk
                                  \o SubSeq(w, 13, Len(w))
        [] kind = "empties"  -> SubSeq(w, 1, 12) \o EmptyChunk \o EmptyChunk
                                  \o EmptyChunk \o SubSeq(w, 13, Len(w))
        [] kind = "past"     -> SubSeq(w, 1, 12) \o ListChunk(int32ToBytes(200))
                                  \o SubSeq(w, 13, Len(w))
        [] kind = "dataless" -> SubSeq(w, 1, 36) \o EmptyChunk \o EmptyChunk

\* buffers that start with "RIFF" for the chunk scan: every framing that
\* keeps the tag, and every beginning of a container from 4 bytes on
ScanBuffers ==
  { Frame(kind, inner) :
      kind \in Framings \ {"badtag", "lowertag"}, inner \in SampleInners }
    \cup UNION { { SubSeq(bytesToWav(inner, << >>), 1, k) :
                     k \in 4..Len(bytesToWav(inner, << >>)) } :
                 inner \in SampleInners }

(***************************************************************************)
(* The continuations of imageToAudio and audioToImage, one per await, on   *)
(* the locals of one call.                                                 *)
(***************************************************************************)
NoCall ==
  [ pc |-> "idle", file |-> NoFile, quality |-> "compressed", enc |-> NoEnc,
    audio |-> NoAudio, wav |-> NoWav, dec |-> NoDec, image |-> NoImage ]

\* imageToJpegBlob / extractRawPixelData settles
EncRaster(c) ==
  IF c.quality = "compressed"
    THEN LET r == imageToJpegBlob(c.file)
         IN  IF r.ok
               THEN [c EXCEPT !.enc = [NoEnc EXCEPT !.raw = r.data],
                              !.pc = "enc_bytes"]
               ELSE [c EXCEPT !.audio = [NoAudio EXCEPT !.status = "error",
                                                        !.error = ErrLoad],
                              !.pc = "encoded"]
    ELSE LET rawData == extractRawPixelData(c.file)
         IN  IF rawData.ok
               THEN [c EXCEPT !.enc = [NoEnc EXCEPT !.raw = rawData.data,
                                                    !.width = rawData.width,
                                                    !.height = rawData.height],
                              !.pc = "enc_bytes"]
               ELSE [c EXCEPT !.audio = [NoAudio EXCEPT !.status = "error",
                                                        !.error = ErrLoad],
                              !.pc = "encoded"]

\* jpegBlob.arrayBuffer() / compressData settles; the rest is synchronous
EncBytes(c) ==
  LET dataToEncode == IF c.quality = "compressed" THEN c.enc.raw
                      ELSE compressData(c.enc.raw)
      originalSize == IF c.quality = "compressed" THEN c.file.size
                      ELSE Len(c.enc.raw)
      headerBytes == IF c.quality = "compressed"
                       THEN JpegHeader(dataToEncode)
                       ELSE FullHeader(c.enc, originalSize)
      audioBlob == bytesToWav(dataToEncode, headerBytes)
      totalSamples == Len(headerBytes) + Len(dataToEncode)
  IN  [c EXCEPT !.enc = [c.enc EXCEPT !.originalSize = originalSize,
                                      !.headerBytes = headerBytes,
                                      !.dataToEncode = dataToEncode],
                !.audio = [ status |-> "ok", error |-> "",
                            blob |-> audioBlob,
                            totalSamples |-> totalSamples,
                            ratioNum |-> originalSize,
                            ratioDen |-> Len(dataToEncode) ],
                !.pc = "encoded"]

\* file.arrayBuffer() settles
DecRead(c) ==
  LET r == audioToImage(c.wav.bytes)
  IN  [c EXCEPT !.pc = r.pc, !.dec = r.dec, !.image = r.image]

\* decompressData settles: rejection, size check, ImageData
DecDecompress(c) ==
  LET r == decompressData(c.dec.data.head)
      rawPixelData == r.data
      ran == [ran |-> TRUE, ok |-> r.ok, data |-> r.data]
      pixelData == [size |-> Len(rawPixelData), head |-> rawPixelData]
  IN  IF ~r.ok
        THEN [c EXCEPT !.image = Failure(ErrInflate), !.pc = "done",
                       !.dec.inflated = ran]
      ELSE IF SizeMismatch(rawPixelData, c.dec.declared)
        THEN [c EXCEPT !.image = Failure(ErrSize), !.pc = "done",
                       !.dec.inflated = ran]
      ELSE IF ~ImageDataOk(Len(rawPixelData), c.dec.width, c.dec.height)
        THEN [c EXCEPT !.image = Failure(ErrImageData), !.pc = "done",
                       !.dec.inflated = ran]
      ELSE [c EXCEPT !.pc = "dec_toBlob", !.dec.inflated = ran,
                     !.dec.data = pixelData]

\* getImageDimensions settles
DecDimensions(c) ==
  LET dimensions == getImageDimensions(c.dec.data)
  IN  [c EXCEPT !.image = IF dimensions.ok
                            THEN Success("jpeg", U32(dimensions.width),
                                         U32(dimensions.height), c.dec.data)
                            ELSE Failure(ErrLoad),
                !.pc = "done"]

\* canvas.toBlob hands over the PNG of the canvas the pixels were put on
DecToBlob(c) ==
  [c EXCEPT !.image = Success(c.dec.path, c.dec.width, c.dec.height,
                              c.dec.data),
            !.pc = "done"]

(***************************************************************************)
(* The component's initial state.                                          *)
(***************************************************************************)
Null == [null |-> TRUE]
Undefined == [undefined |-> TRUE]

\* the object both useState<ModeState> calls start from
InitialModeState ==
  [ uploadedFile |-> Null, resultUrl |-> Null, resultBlob |-> Null,
    previewUrl |-> Null, audioUrl |-> Null, isProcessing |-> FALSE,
    error |-> Null, resultInfo |-> Null ]

InitialUi ==
  [ mode |-> "image-to-wav", quality |-> "compressed",
    imageToWavState |-> InitialModeState,
    wavToImageState |-> InitialModeState,
    isPlaying |-> FALSE ]

NoEvent == [handler |-> "none"]

Modes == {"image-to-wav", "wav-to-image"}

\* files the user picks in image-to-wav mode: three images and a file that
\* does not decode as an image
ImageUploads ==
  { [ name |-> [stem |-> "white", ext |-> "png"], type |-> "image/png",
      image |-> [isImage |-> TRUE, width |-> 1, height |-> 1,
                 data |-> <<255, 255, 255, 255>>, size |-> 8],
      bytes |-> << >> ],
    [ name |-> [stem |-> "pair", ext |-> "png"], type |-> "image/png",
      image |-> [isImage |-> TRUE, width |-> 2, height |-> 1,
                 data |-> <<255, 255, 255, 255, 255, 255, 255, 255>>,
                 size |-> 10],
      bytes |-> << >> ],
    [ name |-> [stem |-> "dark", ext |-> "png"], type |-> "image/png",
      image |-> [isImage |-> TRUE, width |-> 1, height |-> 1,
                 data |-> <<0, 0, 0, 255>>, size |-> 5],
      bytes |-> << >> ],
    [ name |-> [stem |-> "broken", ext |-> "png"], type |-> "image/png",
      image |-> NotAnImage, bytes |-> << >> ] }

\* files the user picks in wav-to-image mode: a container of one red pixel
\* and a file that does not start with "RIFF"
WavUploads ==
  { [ name |-> [stem |-> "sound", ext |-> "wav"], type |-> "audio/wav",
      image |-> NoFile,
      bytes |-> bytesToWav(int32ToBytes(MAGIC_FULL) \o int32ToBytes(1)
                             \o int32ToBytes(1) \o int32ToBytes(4)
                             \o compressData(<<255, 0, 0, 255>>), << >>) ],
    [ name |-> [stem |-> "noise", ext |-> "wav"], type |-> "",
      image |-> NoFile,
      bytes |-> <<88, 73, 70, 70, 0, 0, 0, 0>> ] }

Uploads(mode) == IF mode = "image-to-wav" THEN ImageUploads ELSE WavUploads

\* the File[] handed to handleFileChange: none, one or two files
FileLists(mode) ==
  { << >> } \cup { <<f>> : f \in Uploads(mode) }
    \cup { <<f, g>> : f \in Uploads(mode), g \in Uploads(mode) }

\* mode === "image-to-wav" ? imageToWavState : wavToImageState
StateOf(u, mode) ==
  IF mode = "image-to-wav" THEN u.imageToWavState ELSE u.wavToImageState

\* mode === "image-to-wav" ? setImageToWavState : setWavToImageState
SetState(u, mode, st) ==
  IF mode = "image-to-wav" THEN [u EXCEPT !.imageToWavState = st]
  ELSE [u EXCEPT !.wavToImageState = st]

\* the arguments handleProcess gives the codec
InputOf(job) ==
  IF job.mode = "image-to-wav"
    THEN [kind |-> "imageToAudio", file |-> job.file.image,
          quality |-> job.quality, bytes |-> << >>]
    ELSE [kind |-> "audioToImage", file |-> NoFile,
          quality |-> "compressed", bytes |-> job.file.bytes]

(***************************************************************************)
(* State.                                                                  *)
(***************************************************************************)
VARIABLES
  pc,        \* where the call in flight is suspended
  file,      \* the File given to imageToAudio
  quality,   \* options.quality of that call
  enc,       \* locals of imageToAudio
  audio,     \* what imageToAudio settled with
  wav,       \* the File given to audioToImage and where it came from
  dec,       \* locals of audioToImage
  image,     \* what audioToImage settled with
  probe,     \* one value taken through the sample or the integer codec
  calls,     \* the calls in flight side by side, each with its own locals
  ui,        \* the state of the ImageSonification component
  pending,   \* the handleProcess calls waiting for their conversion
  last,      \* the last call or continuation that wrote a ModeState
  conversions \* how many conversions handleProcess has started

vars == <<pc, file, quality, enc, audio, wav, dec, image, probe,
          calls, ui, pending, last, conversions>>

\* what a single call leaves alone
concurrentVars == <<calls>>
uiVars == <<ui, pending, last, conversions>>

\* the locals of the single call, as one record
Self ==
  [ pc |-> pc, file |-> file, quality |-> quality, enc |-> enc,
    audio |-> audio, wav |-> wav, dec |-> dec, image |-> image ]

Become(c) ==
  /\ pc' = c.pc
  /\ file' = c.file
  /\ quality' = c.quality
  /\ enc' = c.enc
  /\ audio' = c.audio
  /\ wav' = c.wav
  /\ dec' = c.dec
  /\ image' = c.image

NoProbe ==
  [ byte |-> 0, sample |-> 0, back |-> 0,
    word |-> [lo |-> 0, hi |-> 0], bytes |-> << >>,
    read |-> [lo |-> 0, hi |-> 0], path |-> "none",
    scan |-> ScanFrom(0) ]

\* 16-bit halves of the 32-bit values taken through int32ToBytes and
\* bytesToInt32: the ends of the byte, int16 and uint16 ranges and the halves
\* of the two magic values
Halves ==
  { 0, 1, 255, 256, 65280, 32767, 32768, 65535,
    MAGIC_FULL % 65536, MAGIC_FULL \div 65536,
    MAGIC_JPEG % 65536, MAGIC_JPEG \div 65536 }

Init ==
  /\ pc = "idle"
  /\ file = NoFile
  /\ quality = "compressed"
  /\ enc = NoEnc
  /\ audio = NoAudio
  /\ wav = NoWav
  /\ dec = NoDec
  /\ image = NoImage
  /\ probe = NoProbe
  /\ calls = << >>
  /\ ui = InitialUi
  /\ pending = {}
  /\ last = NoEvent
  /\ conversions = 0

(***************************************************************************)
(* imageToAudio, one action per await.                                     *)
(***************************************************************************)
ImageToAudioCall ==
  /\ pc = "idle"
  /\ \E f \in ImageFiles \cup {NotAnImage}, q \in {"full", "compressed"} :
       /\ file' = f
       /\ quality' = q
  /\ pc' = "enc_raster"
  /\ UNCHANGED <<enc, audio, wav, dec, image, probe>>
  /\ UNCHANGED <<concurrentVars, uiVars>>

EncRasterDone ==
  /\ pc = "enc_raster"
  /\ Become(EncRaster(Self))
  /\ UNCHANGED probe
  /\ UNCHANGED <<concurrentVars, uiVars>>

EncBytesDone ==
  /\ pc = "enc_bytes"
  /\ Become(EncBytes(Self))
  /\ UNCHANGED probe
  /\ UNCHANGED <<concurrentVars, uiVars>>

(***************************************************************************)
(* audioToImage, one action per await.                                     *)
(***************************************************************************)
\* the container just built is given to audioToImage
AudioToImageCall ==
  /\ pc = "encoded"
  /\ audio.status = "ok"
  /\ wav' = [bytes |-> audio.blob, origin |-> "encoded"]
  /\ pc' = "dec_read"
  /\ UNCHANGED <<file, quality, enc, audio, dec, image, probe>>
  /\ UNCHANGED <<concurrentVars, uiVars>>

\* a hand-built, well-framed container is given to audioToImage
CraftStream ==
  /\ pc = "idle"
  /\ \E inner \in FullInners \cup {WideFullInner} \cup LegacyInners
                  \cup JpegInners \cup NearMagicInners
                  \cup WideLegacyInners :
       wav' = [bytes |-> bytesToWav(inner, << >>), origin |-> "crafted"]
  /\ pc' = "dec_read"
  /\ UNCHANGED <<file, quality, enc, audio, dec, image, probe>>
  /\ UNCHANGED <<concurrentVars, uiVars>>

\* a well-framed container whose sample stream stops after k samples
CraftCutStream ==
  /\ pc = "idle"
  /\ \E inner \in SampleInners, k \in 0..MaxCut :
       /\ k < Len(inner)
       /\ wav' = [bytes |-> bytesToWav(SubSeq(inner, 1, k), << >>),
                  origin |-> "crafted"]
  /\ pc' = "dec_read"
  /\ UNCHANGED <<file, quality, enc, audio, dec, image, probe>>
  /\ UNCHANGED <<concurrentVars, uiVars>>

\* a file that is not framed as bytesToWav frames it
CraftFraming ==
  /\ pc = "idle"
  /\ \E inner \in SampleInners, kind \in Framings :
       wav' = [bytes |-> Frame(kind, inner), origin |-> "crafted"]
  /\ pc' = "dec_read"
  /\ UNCHANGED <<file, quality, enc, audio, dec, image, probe>>
  /\ UNCHANGED <<concurrentVars, uiVars>>

\* a file of at most MaxShortLen bytes: the start of a container, or of a
\* container with a wrong first byte
CraftShortFile ==
  /\ pc = "idle"
  /\ \E inner \in SampleInners, kind \in {"wav", "badtag"},
        k \in 0..MaxShortLen :
       LET w == IF kind = "wav" THEN bytesToWav(inner, << >>)
                ELSE Frame(kind, inner)
       IN  wav' = [bytes |-> SubSeq(w, 1, k), origin |-> "crafted"]
  /\ pc' = "dec_read"
  /\ UNCHANGED <<file, quality, enc, audio, dec, image, probe>>
  /\ UNCHANGED <<concurrentVars, uiVars>>

DecReadDone ==
  /\ pc = "dec_read"
  /\ Become(DecRead(Self))
  /\ UNCHANGED probe
  /\ UNCHANGED <<concurrentVars, uiVars>>

DecDecompressDone ==
  /\ pc = "dec_decompress"
  /\ Become(DecDecompress(Self))
  /\ UNCHANGED probe
  /\ UNCHANGED <<concurrentVars, uiVars>>

DecDimensionsDone ==
  /\ pc = "dec_dimensions"
  /\ Become(DecDimensions(Self))
  /\ UNCHANGED probe
  /\ UNCHANGED <<concurrentVars, uiVars>>

DecToBlobDone ==
  /\ pc = "dec_toBlob"
  /\ Become(DecToBlob(Self))
  /\ UNCHANGED probe
  /\ UNCHANGED <<concurrentVars, uiVars>>

(***************************************************************************)
(* One byte through the sample codec.                                      *)
(***************************************************************************)
SampleProbe ==
  /\ pc = "idle"
  /\ \E b \in Byte :
       probe' = [NoProbe EXCEPT !.byte = b, !.sample = byteToSample(b),
                                !.back = sampleToByte(byteToSample(b))]
  /\ pc' = "probed"
  /\ UNCHANGED <<file, quality, enc, audio, wav, dec, image>>
  /\ UNCHANGED <<concurrentVars, uiVars>>

\* one element of an Int16Array through sampleToByte
DecodeProbe ==
  /\ pc = "idle"
  /\ \E sample \in -32768..32767 :
       probe' = [NoProbe EXCEPT !.sample = sample,
                                !.back = sampleToByte(sample)]
  /\ pc' = "sample_decoded"
  /\ UNCHANGED <<file, quality, enc, audio, wav, dec, image>>
  /\ UNCHANGED <<concurrentVars, uiVars>>

\* the chunk scan of audioToImage, one pass of the loop per step, on a
\* buffer that got past the RIFF check
ScanStart ==
  /\ pc = "idle"
  /\ \E buf \in ScanBuffers :
       /\ wav' = [bytes |-> buf, origin |-> "crafted"]
       /\ pc' = IF ScanGoesOn(buf, ScanFrom(12)) THEN "scanning"
                ELSE "scanned"
  /\ probe' = [NoProbe EXCEPT !.scan = ScanFrom(12)]
  /\ UNCHANGED <<file, quality, enc, audio, dec, image>>
  /\ UNCHANGED <<concurrentVars, uiVars>>

ScanStep ==
  /\ pc = "scanning"
  /\ \E next \in {ScanIteration(wav.bytes, probe.scan)} :
       /\ probe' = [probe EXCEPT !.scan = next]
       /\ pc' = IF ScanGoesOn(wav.bytes, next) THEN "scanning" ELSE "scanned"
  /\ UNCHANGED <<file, quality, enc, audio, wav, dec, image>>
  /\ UNCHANGED <<concurrentVars, uiVars>>

\* one 32-bit value written by int32ToBytes and read back by bytesToInt32
WordProbe ==
  /\ pc = "idle"
  /\ \E h \in Halves, l \in Halves :
       LET word == [lo |-> l, hi |-> h]
           bytes == int32ToBytes(ToInt32(word))
       IN  probe' = [NoProbe EXCEPT !.word = word, !.bytes = bytes,
                                    !.read = bytesToInt32(bytes, 0)]
  /\ pc' = "word_probed"
  /\ UNCHANGED <<file, quality, enc, audio, wav, dec, image>>
  /\ UNCHANGED <<concurrentVars, uiVars>>

\* the width field of a legacy header, for each width the dimension check
\* of handleLegacyFormat lets through, read as audioToImage reads the magic
WidthProbe ==
  /\ pc = "idle"
  /\ \E w \in 1..MAX_DIMENSION :
       LET bytes == int32ToBytes(w)
           magic == bytesToInt32(bytes, 0)
       IN  probe' = [NoProbe EXCEPT !.word = U32(w), !.bytes = bytes,
                                    !.read = magic, !.path = Classify(magic)]
  /\ pc' = "width_probed"
  /\ UNCHANGED <<file, quality, enc, audio, wav, dec, image>>
  /\ UNCHANGED <<concurrentVars, uiVars>>

\* the caller drops the settled call and starts over
Reset ==
  /\ pc \in {"encoded", "done", "probed", "word_probed", "width_probed",
            "sample_decoded", "scanned"}
  /\ pc' = "idle"
  /\ file' = NoFile
  /\ quality' = "compressed"
  /\ enc' = NoEnc
  /\ audio' = NoAudio
  /\ wav' = NoWav
  /\ dec' = NoDec
  /\ image' = NoImage
  /\ probe' = NoProbe
  /\ UNCHANGED <<concurrentVars, uiVars>>

Next ==
  \/ ImageToAudioCall
  \/ EncRasterDone
  \/ EncBytesDone
  \/ AudioToImageCall
  \/ CraftStream
  \/ CraftCutStream
  \/ CraftFraming
  \/ CraftShortFile
  \/ DecReadDone
  \/ DecDecompressDone
  \/ DecDimensionsDone
  \/ DecToBlobDone
  \/ SampleProbe
  \/ DecodeProbe
  \/ ScanStart
  \/ ScanStep
  \/ WordProbe
  \/ WidthProbe
  \/ Reset

Spec == Init /\ [][Next]_vars


(***************************************************************************)
(* Several calls side by side.  Every call of imageToAudio or audioToImage *)
(* has its own locals (they are declared inside the functions, lines 263   *)
(* to 451; the module keeps nothing but constants), and the event loop     *)
(* resumes one call at a time, at an await.                                *)
(***************************************************************************)
\* inputs of the calls run side by side
CallFiles ==
  { f \in ImageFiles :
      /\ f.size = 8
      /\ f.data \in { <<1, 127, 128, 254>>,
                      <<255, 0, 0, 255, 1, 127, 128, 254>> } }
    \cup {NotAnImage}

CallWavs ==
  { bytesToWav(inner, << >>) : inner \in SampleInners }
    \cup { Frame("badtag", inner) : inner \in SampleInners }

IsSettled(c) == c.pc \in {"encoded", "done"}

\* the call as it is before its first await
Started(input) ==
  IF input.kind = "imageToAudio"
    THEN [NoCall EXCEPT !.pc = "enc_raster", !.file = input.file,
                        !.quality = input.quality]
    ELSE [NoCall EXCEPT !.pc = "dec_read",
                        !.wav = [bytes |-> input.bytes, origin |-> "crafted"]]

\* the continuation the call is suspended at
Step(c) ==
  CASE c.pc = "enc_raster"     -> EncRaster(c)
    [] c.pc = "enc_bytes"      -> EncBytes(c)
    [] c.pc = "dec_read"       -> DecRead(c)
    [] c.pc = "dec_decompress" -> DecDecompress(c)
    [] c.pc = "dec_dimensions" -> DecDimensions(c)
    [] c.pc = "dec_toBlob"     -> DecToBlob(c)
    [] OTHER                   -> c

\* what the caller gets: the resolved value or the rejection
Result(c) == [audio |-> c.audio, image |-> c.image]

\* another call is suspended at an await
OthersInFlight(i) ==
  \E j \in 1..Len(calls) : j # i /\ ~IsSettled(calls[j].c)

StartImageToAudio ==
  /\ Len(calls) < MaxCalls
  /\ \E f \in CallFiles, q \in {"full", "compressed"} :
       LET input == [kind |-> "imageToAudio", file |-> f, quality |-> q,
                     bytes |-> << >>]
       IN  calls' = Append(calls, [input |-> input, c |-> Started(input),
                                   overlapped |-> FALSE])
  /\ UNCHANGED <<pc, file, quality, enc, audio, wav, dec, image, probe>>
  /\ UNCHANGED uiVars

StartAudioToImage ==
  /\ Len(calls) < MaxCalls
  /\ \E b \in CallWavs :
       LET input == [kind |-> "audioToImage", file |-> NoFile,
                     quality |-> "compressed", bytes |-> b]
       IN  calls' = Append(calls, [input |-> input, c |-> Started(input),
                                   overlapped |-> FALSE])
  /\ UNCHANGED <<pc, file, quality, enc, audio, wav, dec, image, probe>>
  /\ UNCHANGED uiVars

\* an await of one imageToAudio call settles
ResumeImageToAudio ==
  /\ \E i \in 1..Len(calls) :
       /\ calls[i].input.kind = "imageToAudio"
       /\ ~IsSettled(calls[i].c)
       /\ calls' = [calls EXCEPT
                      ![i].c = Step(calls[i].c),
                      ![i].overlapped = calls[i].overlapped
                                          \/ OthersInFlight(i)]
  /\ UNCHANGED <<pc, file, quality, enc, audio, wav, dec, image, probe>>
  /\ UNCHANGED uiVars

\* variant: the locals of audioToImage kept in one place for all calls
ResumeAudioToImage_ModuleLocals ==
  /\ \E i \in 1..Len(calls) :
       /\ calls[i].input.kind = "audioToImage"
       /\ ~IsSettled(calls[i].c)
       /\ LET c == Step([calls[i].c EXCEPT
                           !.dec = IF calls[i].c.pc = "dec_read"
                                     THEN calls[i].c.dec ELSE dec])
          IN  /\ calls' = [calls EXCEPT
                             ![i].c = c,
                             ![i].overlapped = calls[i].overlapped
                                                 \/ OthersInFlight(i)]
              /\ dec' = c.dec
  /\ UNCHANGED <<pc, file, quality, enc, audio, wav, image, probe>>
  /\ UNCHANGED uiVars

\* an await of one audioToImage call settles
ResumeAudioToImage ==
  /\ \E i \in 1..Len(calls) :
       /\ calls[i].input.kind = "audioToImage"
       /\ ~IsSettled(calls[i].c)
       /\ calls' = [calls EXCEPT
                      ![i].c = Step(calls[i].c),
                      ![i].overlapped = calls[i].overlapped
                                          \/ OthersInFlight(i)]
  /\ UNCHANGED <<pc, file, quality, enc, audio, wav, dec, image, probe>>
  /\ UNCHANGED uiVars

ConcurrentNext ==
  \/ StartImageToAudio
  \/ StartAudioToImage
  \/ ResumeImageToAudio
  \/ ResumeAudioToImage

ConcurrentSpec == Init /\ [][ConcurrentNext]_vars

(***************************************************************************)
(* The ImageSonification component: its handlers, and the continuations of *)
(* handleProcess after "await imageToAudio" / "await audioToImage".  A     *)
(* handler is enabled when the element it is bound to is rendered and not  *)
(* disabled.                                                               *)
(***************************************************************************)
currentState == StateOf(ui, ui.mode)

\* file.type.startsWith("image/")
IsImageType(f) == f.type = "image/png"

\* file.type.startsWith("audio/") || file.name.endsWith(".wav")
IsAudioFile(f) == f.type = "audio/wav" \/ f.name.ext = "wav"

\* result.compressionRatio && result.compressionRatio > 1, the ratio being
\* num / den: x / 0 is Infinity for x > 0 and NaN for x = 0
RatioAboveOne_OrEqual(num, den) ==
  IF den = 0 THEN num > 0 ELSE num >= den

RatioAboveOne(num, den) ==
  IF den = 0 THEN num > 0 ELSE num > den

\* variant: the error of the previous conversion stays
Selected_KeepsError(prev, f) ==
  [prev EXCEPT !.uploadedFile = f,
               !.resultUrl = Null,
               !.resultBlob = Null,
               !.resultInfo = Null,
               !.previewUrl = IF IsImageType(f) THEN [objectUrlOf |-> f.name]
                              ELSE Null,
               !.audioUrl = IF IsAudioFile(f) THEN [objectUrlOf |-> f.name]
                            ELSE Null]

\* the updater of handleFileChange
Selected(prev, f) ==
  [prev EXCEPT !.uploadedFile = f,
               !.resultUrl = Null,
               !.resultBlob = Null,
               !.error = Null,
               !.resultInfo = Null,
               !.previewUrl = IF IsImageType(f) THEN [objectUrlOf |-> f.name]
                              ELSE Null,
               !.audioUrl = IF IsAudioFile(f) THEN [objectUrlOf |-> f.name]
                            ELSE Null]

\* the updater handleProcess runs before the conversion
Processing(prev) ==
  [prev EXCEPT !.isProcessing = TRUE, !.error = Null, !.resultInfo = Null,
               !.resultBlob = Null]

\* the updater after "await imageToAudio": result is what the call resolved
\* with; the texts of formatBytes, formatDuration and toFixed stand as the
\* numbers they are made from
Sonified(prev, job, result) ==
  [prev EXCEPT
     !.resultUrl = [by |-> job.id],
     !.resultBlob = [by |-> job.id, bytes |-> result.blob],
     !.resultInfo =
        [ by |-> job.id,
          size |-> Len(result.blob),
          duration |-> result.totalSamples,
          dimensions |-> Undefined,
          compressionRatio |->
            IF RatioAboveOne(result.ratioNum, result.ratioDen)
              THEN [num |-> result.ratioNum, den |-> result.ratioDen]
              ELSE Undefined ],
     !.isProcessing = FALSE]

\* the updater after "await audioToImage"
Reconstructed(prev, job, result) ==
  [prev EXCEPT
     !.resultUrl = [by |-> job.id],
     !.resultBlob = [by |-> job.id, bytes |-> result.data.head],
     !.resultInfo =
        [ by |-> job.id,
          size |-> result.data.size,
          duration |-> Undefined,
          dimensions |-> <<result.width, result.height>>,
          compressionRatio |-> Undefined ],
     !.isProcessing = FALSE]

\* variant: the catch block leaves the flag set
Caught_StillProcessing(prev, job, message) ==
  [prev EXCEPT !.error = [message |-> message]]

\* variant: the catch block leaves a blob behind
Caught_PartialBlob(prev, job, message) ==
  [prev EXCEPT !.error = [message |-> message], !.isProcessing = FALSE,
               !.resultBlob = [by |-> job.id, bytes |-> << >>]]

\* the updater of the catch block
Caught(prev, job, message) ==
  [prev EXCEPT !.error = [message |-> message], !.isProcessing = FALSE]

handleFileChange ==
  /\ currentState.uploadedFile = Null
  /\ \E files \in FileLists(ui.mode) :
       /\ ui' = IF Len(files) > 0
                  THEN SetState(ui, ui.mode, Selected(currentState, files[1]))
                  ELSE ui
       /\ last' = [handler |-> "handleFileChange", mode |-> ui.mode,
                   count |-> Len(files),
                   first |-> IF Len(files) > 0 THEN files[1] ELSE Null,
                   outcome |-> \/ currentState.resultUrl # Null
                               \/ currentState.error # Null]
  /\ UNCHANGED <<pending, conversions>>
  /\ UNCHANGED <<pc, file, quality, enc, audio, wav, dec, image, probe>>
  /\ UNCHANGED concurrentVars

\* up to the await; the process button is rendered while there is a file
\* and no resultUrl, and disabled while isProcessing
handleProcess ==
  /\ IF currentState.uploadedFile = Null
       THEN /\ last' = [handler |-> "handleProcess", mode |-> ui.mode,
                        started |-> FALSE]
            /\ UNCHANGED <<ui, pending, conversions>>
       ELSE /\ currentState.resultUrl = Null
            /\ ~currentState.isProcessing
            /\ conversions < MaxConversions
            /\ LET job == [ id |-> conversions + 1, mode |-> ui.mode,
                            file |-> currentState.uploadedFile,
                            quality |-> ui.quality ]
               IN  /\ pending' = pending \cup {job}
                   /\ last' = [handler |-> "handleProcess",
                               mode |-> ui.mode, started |-> TRUE,
                               job |-> job]
            /\ ui' = SetState(ui, ui.mode, Processing(currentState))
            /\ conversions' = conversions + 1
  /\ UNCHANGED <<pc, file, quality, enc, audio, wav, dec, image, probe>>
  /\ UNCHANGED concurrentVars

\* the conversion of a waiting handleProcess call resolves
ConversionResolved ==
  /\ \E job \in pending :
       \E c0 \in {Started(InputOf(job))} :
       \E c1 \in {Step(c0)} :
       \E c2 \in {Step(c1)} :
       \E c3 \in {Step(c2)} :
         /\ IF job.mode = "image-to-wav"
              THEN /\ c3.audio.status = "ok"
                   /\ ui' = SetState(ui, job.mode,
                                     Sonified(StateOf(ui, job.mode), job,
                                              c3.audio))
                   /\ last' = [handler |-> "resolved", job |-> job,
                               result |-> c3.audio, active |-> ui.mode]
              ELSE /\ c3.image.status = "ok"
                   /\ ui' = SetState(ui, job.mode,
                                     Reconstructed(StateOf(ui, job.mode), job,
                                                   c3.image))
                   /\ last' = [handler |-> "resolved", job |-> job,
                               result |-> c3.image, active |-> ui.mode]
         /\ pending' = pending \ {job}
  /\ UNCHANGED conversions
  /\ UNCHANGED <<pc, file, quality, enc, audio, wav, dec, image, probe>>
  /\ UNCHANGED concurrentVars

\* variant: the catch block writes to the mode shown when it runs
ConversionRejected_ActiveMode ==
  /\ \E job \in pending :
       \E c0 \in {Started(InputOf(job))} :
       \E c1 \in {Step(c0)} :
       \E c2 \in {Step(c1)} :
       \E c3 \in {Step(c2)} :
         LET message == IF job.mode = "image-to-wav" THEN c3.audio.error
                        ELSE c3.image.error
             status == IF job.mode = "image-to-wav" THEN c3.audio.status
                       ELSE c3.image.status
         IN  /\ status = "error"
             /\ ui' = SetState(ui, ui.mode,
                               Caught(StateOf(ui, ui.mode), job, message))
             /\ last' = [handler |-> "rejected", job |-> job,
                         message |-> message, active |-> ui.mode]
             /\ pending' = pending \ {job}
  /\ UNCHANGED conversions
  /\ UNCHANGED <<pc, file, quality, enc, audio, wav, dec, image, probe>>
  /\ UNCHANGED concurrentVars

\* the conversion of a waiting handleProcess call rejects
ConversionRejected ==
  /\ \E job \in pending :
       \E c0 \in {Started(InputOf(job))} :
       \E c1 \in {Step(c0)} :
       \E c2 \in {Step(c1)} :
       \E c3 \in {Step(c2)} :
         LET message == IF job.mode = "image-to-wav" THEN c3.audio.error
                        ELSE c3.image.error
             status == IF job.mode = "image-to-wav" THEN c3.audio.status
                       ELSE c3.image.status
         IN  /\ status = "error"
             /\ ui' = SetState(ui, job.mode,
                               Caught(StateOf(ui, job.mode), job, message))
             /\ last' = [handler |-> "rejected", job |-> job,
                         message |-> message, active |-> ui.mode]
             /\ pending' = pending \ {job}
  /\ UNCHANGED conversions
  /\ UNCHANGED <<pc, file, quality, enc, audio, wav, dec, image, probe>>
  /\ UNCHANGED concurrentVars

\* the reset button is in the view of the uploaded file; in wav-to-image
\* mode it is part of the player, rendered while there is an audioUrl
handleReset ==
  /\ currentState.uploadedFile # Null
  /\ ui.mode = "wav-to-image" => currentState.audioUrl # Null
  /\ ui' = [SetState(ui, ui.mode, InitialModeState) EXCEPT
              !.isPlaying = FALSE]
  /\ last' = [handler |-> "handleReset", mode |-> ui.mode]
  /\ UNCHANGED <<pending, conversions>>
  /\ UNCHANGED <<pc, file, quality, enc, audio, wav, dec, image, probe>>
  /\ UNCHANGED concurrentVars

\* variant: the mode that is left starts over
handleModeChange_Resets ==
  /\ \E value \in Modes :
       ui' = [SetState(ui, ui.mode, InitialModeState)
                EXCEPT !.mode = value, !.isPlaying = FALSE]
  /\ UNCHANGED <<pending, last, conversions>>
  /\ UNCHANGED <<pc, file, quality, enc, audio, wav, dec, image, probe>>
  /\ UNCHANGED concurrentVars

handleModeChange ==
  /\ \E value \in Modes :
       ui' = [ui EXCEPT !.mode = value, !.isPlaying = FALSE]
  /\ UNCHANGED <<pending, last, conversions>>
  /\ UNCHANGED <<pc, file, quality, enc, audio, wav, dec, image, probe>>
  /\ UNCHANGED concurrentVars

\* the quality selector is rendered in image-to-wav mode while there is a
\* file and no resultUrl
setQuality ==
  /\ ui.mode = "image-to-wav"
  /\ currentState.uploadedFile # Null
  /\ currentState.resultUrl = Null
  /\ \E q \in {"compressed", "full"} :
       ui' = [ui EXCEPT !.quality = q]
  /\ UNCHANGED <<pending, last, conversions>>
  /\ UNCHANGED <<pc, file, quality, enc, audio, wav, dec, image, probe>>
  /\ UNCHANGED concurrentVars

\* audioRef.current is the player of the uploaded wav file
togglePlayPause ==
  /\ ui.mode = "wav-to-image"
  /\ currentState.uploadedFile # Null
  /\ currentState.audioUrl # Null
  /\ ui' = [ui EXCEPT !.isPlaying = ~ui.isPlaying]
  /\ UNCHANGED <<pending, last, conversions>>
  /\ UNCHANGED <<pc, file, quality, enc, audio, wav, dec, image, probe>>
  /\ UNCHANGED concurrentVars

UiNext ==
  \/ handleFileChange
  \/ handleProcess
  \/ ConversionResolved
  \/ ConversionRejected
  \/ handleReset
  \/ handleModeChange
  \/ setQuality
  \/ togglePlayPause

UiSpec == Init /\ [][UiNext]_vars

\* the promise of every conversion settles, and the continuation of the
\* handleProcess call that awaits it is then run by the event loop: a call
\* does not stay in the pending set for ever
UiFairSpec ==
  /\ UiSpec
  /\ \A id \in 1..MaxConversions :
       WF_pending(\E job \in pending :
                    job.id = id /\ pending' = pending \ {job})

(***************************************************************************)
(* Properties.                                                             *)
(***************************************************************************)
Settled == pc = "done"
FromEncoder == wav.origin = "encoded"
StartsWithRiff(buf) == Len(buf) >= 4 /\ SubSeq(buf, 1, 4) = TagRIFF
AsBuffer(bytes) == [size |-> Len(bytes), head |-> bytes]

\* C1: every byte taken through byteToSample and then sampleToByte comes
\* back as the same byte.
SampleBijection ==
  pc = "probed" => probe.back = probe.byte

SampleBijectionWitness ==
  pc = "probed" /\ probe.byte = 255 /\ probe.sample = 32512 /\ probe.back = 255

\* C2: a container built in quality "full" decodes to an image with the
\* width and height of the encoded image, built from the very RGBA bytes
\* that were encoded.
FullRoundTrip ==
  (Settled /\ FromEncoder /\ quality = "full") =>
     /\ image.status = "ok"
     /\ image.width = U32(file.width)
     /\ image.height = U32(file.height)
     /\ image.data = AsBuffer(file.data)

FullRoundTripWitness ==
  /\ Settled /\ FromEncoder /\ quality = "full"
  /\ file.width = 1 /\ file.height = 2
  /\ image.status = "ok" /\ image.data.size = 8

\* C3: a container built in quality "compressed" hands the lossy decoder the
\* byte stream the encoder produced, same length, bytes and order, and the
\* decoded image has the width and height of the encoded one.
CompressedRoundTrip ==
  (Settled /\ FromEncoder /\ quality = "compressed") =>
     /\ image.status = "ok"
     /\ image.data = AsBuffer(enc.dataToEncode)
     /\ image.width = U32(file.width)
     /\ image.height = U32(file.height)

CompressedRoundTripWitness ==
  /\ Settled /\ FromEncoder /\ quality = "compressed"
  /\ file.width = 2 /\ file.height = 1
  /\ image.status = "ok" /\ image.data.size = Len(enc.dataToEncode)

\* C4: the data chunk of a container the encoder built declares
\* (header.length + payload.length) * 2 bytes, the RIFF size field is 36
\* more, and the decoder's chunk scan of it yields exactly
\* header.length + payload.length samples.
ContainerValidity ==
  LET n == Len(enc.headerBytes) + Len(enc.dataToEncode)
  IN  /\ audio.status = "ok" =>
           /\ bytesToInt32(audio.blob, 40) = U32(n * 2)
           /\ bytesToInt32(audio.blob, 4) = U32(36 + n * 2)
           /\ Len(audio.blob) = 44 + n * 2
      /\ (FromEncoder /\ pc \notin {"encoded", "dec_read"}) =>
           /\ dec.found
           /\ dec.offset = 44
           /\ Len(dec.samples) = n

ContainerValidityWitness ==
  /\ FromEncoder /\ Settled /\ quality = "full"
  /\ Len(enc.dataToEncode) > 4
  /\ Len(dec.samples) = 16 + Len(enc.dataToEncode)

\* C5: a buffer of any length whose first four bytes are not "RIFF" fails
\* with the missing-RIFF-header error and yields no image.
RejectsNonRiff ==
  (Settled /\ ~StartsWithRiff(wav.bytes)) =>
     image.status = "error" /\ image.error = ErrRiff

\* C6: a buffer that starts with "RIFF" in which the scan finds no "data"
\* chunk fails with an error and none of its bytes are read as samples.
MissingDataChunkFails ==
  (Settled /\ StartsWithRiff(wav.bytes) /\ ~dec.found) =>
     /\ image.status = "error"
     /\ dec.path = "none"
     /\ dec.samples = << >>

\* C7: a full-fidelity or legacy header that declares a width or height of
\* 0 or above 32768 fails with the invalid-dimensions error and yields no
\* image.
\* The header is all there, and on the full-fidelity path the payload
\* decompresses to the declared size, so that no earlier check applies.
DimensionBoundEnforced ==
  (/\ Settled
   /\ \/ dec.path = "legacy" /\ Len(dec.samples) >= 12
      \/ /\ dec.path = "full" /\ Len(dec.samples) >= 16
         /\ dec.inflated.ok
         /\ U32(Len(dec.inflated.data)) = dec.declared
   /\ DimensionsInvalid(dec.width, dec.height)) =>
     image.status = "error" /\ image.error = ErrDims

\* C8: on the full-fidelity path, a decompressed payload whose length is not
\* the declared originalSize fails with the size-mismatch error, before an
\* image is built.
SizeMismatchDetected ==
  (Settled /\ dec.path = "full" /\ dec.inflated.ran /\ dec.inflated.ok
           /\ U32(Len(dec.inflated.data)) # dec.declared) =>
     /\ image.status = "error"
     /\ image.error = ErrSize
     /\ image.data.size = 0

SizeMismatchDetectedWitness ==
  /\ Settled /\ dec.path = "full" /\ dec.inflated.ok
  /\ Len(dec.inflated.data) = 4 /\ dec.declared = U32(8)
  /\ image.error = ErrSize

\* the sample stream is shorter than the header read from it requires
Truncated ==
  \/ Len(dec.samples) < 4
  \/ /\ dec.path = "full"
     /\ Len(dec.samples) < 16
  \/ /\ dec.path = "jpeg"
     /\ (~Fits(dec.declared) \/ Len(dec.samples) - 8 < Val(dec.declared))
  \/ /\ dec.path = "legacy"
     /\ \/ Len(dec.samples) < 12
        \/ /\ ~DimensionsInvalid(dec.width, dec.height)
           /\ dec.declared.hi = 0 /\ dec.declared.lo > 0
           /\ (Len(dec.samples) - 12) \div dec.declared.lo
                < Val(dec.width) * Val(dec.height)

\* C9: a container whose sample stream is shorter than its header requires
\* fails with an error; no returned image has bytes that were filled in for
\* missing samples.
TruncatedStreamFails ==
  (Settled /\ dec.path # "none") =>
     /\ Truncated => image.status = "error"
     /\ image.status = "ok" => Filled(image.data) = 0

MagicRead ==
  /\ pc \in {"dec_decompress", "dec_dimensions", "dec_toBlob", "done"}
  /\ RiffCheck(wav.bytes) = "ok"
  /\ Len(SliceFrom(wav.bytes, dec.offset)) % 2 = 0

\* the first four decoded bytes of the file given to audioToImage
FirstFour ==
  ReadHeader(BytesToSamples(SliceFrom(wav.bytes, dec.offset)), 4)

\* C11: once a magic value is read, the full path is taken exactly when the
\* first four decoded bytes are 4C 4C 55 46 (0x46554C4C little-endian), the
\* compressed path exactly when they are 47 45 50 4A (0x4A504547), the
\* legacy path for every other value, and never two of them.
ClassificationTotal ==
  MagicRead =>
    /\ dec.path \in {"full", "jpeg", "legacy"}
    /\ (dec.path = "full") <=> (FirstFour = <<76, 76, 85, 70>>)
    /\ (dec.path = "jpeg") <=> (FirstFour = <<71, 69, 80, 74>>)
    /\ (dec.path = "legacy") <=>
         (FirstFour \notin {<<76, 76, 85, 70>>, <<71, 69, 80, 74>>})

\* a value one above 0x46554C4C in its lowest byte goes the legacy way
ClassificationTotalWitness ==
  /\ MagicRead
  /\ FirstFour = <<77, 76, 85, 70>>
  /\ dec.path = "legacy"
  /\ image.status = "error"

\* the four bytes of a 32-bit value, least significant first
LittleEndian(u) ==
  <<u.lo % 256, u.lo \div 256, u.hi % 256, u.hi \div 256>>

\* C12: in quality "full" the header is 16 bytes: 4C 4C 55 46, then width,
\* height and raw byte length, each least significant byte first; the
\* decoder takes the full path and reads back the width, height and length
\* the encoder wrote; and every 32-bit value written by int32ToBytes is
\* four little-endian bytes that bytesToInt32 reads back as the same value.
FullHeaderLayout ==
  /\ (quality = "full" /\ audio.status = "ok") =>
        /\ Len(enc.headerBytes) = 16
        /\ enc.headerBytes =
             <<76, 76, 85, 70>> \o LittleEndian(U32(enc.width))
               \o LittleEndian(U32(enc.height))
               \o LittleEndian(U32(Len(enc.raw)))
  /\ (quality = "full" /\ FromEncoder /\ MagicRead) =>
        /\ dec.path = "full"
        /\ dec.width = U32(enc.width)
        /\ dec.height = U32(enc.height)
        /\ dec.declared = U32(Len(enc.raw))
        /\ ReadHeader(dec.samples, 16) = enc.headerBytes
  /\ pc = "word_probed" =>
        /\ probe.bytes = LittleEndian(probe.word)
        /\ probe.read = probe.word

\* a 2 x 1 image encoded and decoded, and the value 2^32 - 1 probed
FullHeaderLayoutWitness ==
  /\ pc = "done" /\ quality = "full" /\ FromEncoder
  /\ enc.width = 2 /\ enc.height = 1
  /\ enc.headerBytes = <<76, 76, 85, 70, 2, 0, 0, 0, 1, 0, 0, 0, 8, 0, 0, 0>>
  /\ dec.width = U32(2) /\ dec.declared = U32(8)

\* the value 2^32 - 256 written and read back
WordRoundTripWitness ==
  /\ pc = "word_probed"
  /\ probe.word = [lo |-> 65280, hi |-> 65535]
  /\ probe.bytes = <<0, 255, 255, 255>>
  /\ probe.read = probe.word

\* the bytes the samples of a container built by bytesToWav stand for
ContainerBytes(blob) ==
  LET samples == BytesToSamples(SubSeq(blob, 45, Len(blob)))
  IN  ReadHeader(samples, Len(samples))

\* C13: in quality "compressed" the header is 8 bytes: 47 45 50 4A, then
\* payloadLength least significant byte first, and the container holds
\* exactly payloadLength bytes after those 8.
CompressedHeaderLayout ==
  (quality = "compressed" /\ audio.status = "ok") =>
    LET bytes == ContainerBytes(audio.blob)
        payloadLength == bytesToInt32(bytes, 4)
    IN  /\ Len(enc.headerBytes) = 8
        /\ enc.headerBytes =
             <<71, 69, 80, 74>> \o LittleEndian(U32(Len(enc.dataToEncode)))
        /\ SubSeq(bytes, 1, 8) = enc.headerBytes
        /\ Fits(payloadLength)
        /\ Len(bytes) - 8 = Val(payloadLength)
        /\ SubSeq(bytes, 9, Len(bytes)) = enc.dataToEncode

\* a 2 x 2 image: 4 + 3 * 4 = 16 payload bytes after the 8 of the header
CompressedHeaderLayoutWitness ==
  /\ pc = "encoded" /\ quality = "compressed" /\ audio.status = "ok"
  /\ enc.headerBytes = <<71, 69, 80, 74, 16, 0, 0, 0>>
  /\ Len(ContainerBytes(audio.blob)) = 24

\* C17: every container the encoder builds starts with 44 bytes of which
\* bytes 12..35 are "fmt ", chunk length 16, format 1 (PCM), 1 channel,
\* sample rate 44100 (44 AC 00 00), byte rate 88200 (88 58 01 00), block
\* alignment 2 and 16 bits per sample, and bytes 36..39 are "data",
\* whatever the quality, the image and the payload.
FixedAudioParameters ==
  audio.status = "ok" =>
    /\ Len(audio.blob) = 44 + 2 * (Len(enc.headerBytes) + Len(enc.dataToEncode))
    /\ SubSeq(audio.blob, 13, 36) =
         << 102, 109, 116, 32,   16, 0, 0, 0,   1, 0,   1, 0,
            68, 172, 0, 0,   136, 88, 1, 0,   2, 0,   16, 0 >>
    /\ SubSeq(audio.blob, 37, 40) = <<100, 97, 116, 97>>
    /\ 88200 = SAMPLE_RATE * NUM_CHANNELS * (BITS_PER_SAMPLE \div 8)

\* a full-quality container of four pixels carries the same parameters
FixedAudioParametersWitness ==
  /\ pc = "encoded" /\ audio.status = "ok" /\ quality = "full"
  /\ Len(enc.raw) = 16
  /\ SubSeq(audio.blob, 21, 36) =
       <<1, 0, 1, 0, 68, 172, 0, 0, 136, 88, 1, 0, 2, 0, 16, 0>>

\* C18: a header whose width field is in 1..32768 never starts with the
\* bytes of 0x46554C4C or 0x4A504547, and a container that starts with such
\* a width is always taken the legacy way.
MagicNeverLegalWidth ==
  /\ pc = "width_probed" =>
        /\ probe.bytes \notin {<<76, 76, 85, 70>>, <<71, 69, 80, 74>>}
        /\ probe.read = probe.word
        /\ probe.path = "legacy"
  /\ LET width == bytesToInt32(FirstFour, 0)
     IN  ( MagicRead /\ Fits(width) /\ Val(width) >= 1
             /\ Val(width) <= MAX_DIMENSION ) =>
           dec.path = "legacy"

\* a row of 0x4C4C pixels, the low half of 0x46554C4C, decoded as legacy
MagicNeverLegalWidthWitness ==
  /\ pc = "done" /\ MagicRead
  /\ FirstFour = <<76, 76, 0, 0>>
  /\ dec.path = "legacy" /\ dec.width = U32(19532)
  /\ image.status = "ok" /\ image.path = "legacy"

\* the width 0x4547, the low half of 0x4A504547, probed
MagicLowWidthProbed ==
  /\ pc = "width_probed" /\ probe.word = U32(17735)
  /\ probe.bytes = <<71, 69, 0, 0>> /\ probe.path = "legacy"

\* C19: the container holds one sample per byte of header ++ payload, in
\* that order, and sample i is (byte i - 128) * 256.
SampleStreamOrder ==
  audio.status = "ok" =>
    LET bytes == enc.headerBytes \o enc.dataToEncode
        samples == BytesToSamples(SubSeq(audio.blob, 45, Len(audio.blob)))
    IN  /\ Len(samples) = Len(enc.headerBytes) + Len(enc.dataToEncode)
        /\ \A i \in 1..Len(samples) : samples[i] = (bytes[i] - 128) * 256

\* a compressed container: sample 0 stands for the 0x47 of the header, sample
\* 8 for the first payload byte 0xFF, the last sample for the last payload byte
SampleStreamOrderWitness ==
  /\ pc = "encoded" /\ audio.status = "ok" /\ quality = "compressed"
  /\ Len(enc.dataToEncode) = 10
  /\ LET samples == BytesToSamples(SubSeq(audio.blob, 45, Len(audio.blob)))
     IN  /\ Len(samples) = 18
         /\ samples[1] = -14592
         /\ samples[9] = 32512
         /\ samples[18] = (enc.dataToEncode[10] - 128) * 256
         /\ enc.dataToEncode[10] # enc.dataToEncode[9]

\* C20: for every byte b, byteToSample(b) is (b - 128) * 256, lies in
\* -32768..32767, is unchanged by the store into a 16-bit signed sample, and
\* is 256 above the sample of b - 1.
SampleInRange ==
  pc = "probed" =>
    /\ probe.sample = (probe.byte - 128) * 256
    /\ probe.sample >= -32768 /\ probe.sample <= 32767
    /\ ToInt16(probe.sample) = probe.sample
    /\ probe.byte > 0 => probe.sample - byteToSample(probe.byte - 1) = 256

\* the lowest byte lands on the lowest 16-bit sample
SampleInRangeWitness ==
  pc = "probed" /\ probe.byte = 0 /\ probe.sample = -32768

\* C15: however the awaits of the calls interleave, the locals of every
\* call are what they are after the same number of awaits (c1, c2, c3) of
\* that call run alone on its input, and a settled call has the result of
\* the call run alone.
CallsIndependent ==
  \A i \in 1..Len(calls) :
    \A c0 \in {Started(calls[i].input)} :
      \A c1 \in {Step(c0)} :
        \A c2 \in {Step(c1)} :
          \A c3 \in {Step(c2)} :
            /\ calls[i].c \in {c0, c1, c2, c3}
            /\ IsSettled(c3)
            /\ IsSettled(calls[i].c) => Result(calls[i].c) = Result(c3)

\* a decode and an encode that were resumed while the other was suspended,
\* one settled with an image, the other with a container
CallsIndependentWitness ==
  /\ Len(calls) = 2
  /\ calls[1].input.kind = "audioToImage"
  /\ calls[2].input.kind = "imageToAudio"
  /\ calls[1].overlapped /\ calls[2].overlapped
  /\ IsSettled(calls[1].c) /\ IsSettled(calls[2].c)
  /\ calls[1].c.image.status = "ok"
  /\ calls[2].c.audio.status = "ok"

\* C14: when an encode started by handleProcess resolves, the ratio it
\* returns is originalSize (the raw byte count in quality "full", the size of
\* the input file in quality "compressed") over the payload length, and the
\* stats of image-to-wav mode carry that ratio exactly when it is above 1.
RatioReporting ==
  (last.handler = "resolved" /\ last.job.mode = "image-to-wav") =>
    LET f == last.job.file.image
        headerLength == IF last.job.quality = "full" THEN 16 ELSE 8
        payloadLength ==
          (Len(last.result.blob) - 44) \div 2 - headerLength
        originalSize == IF last.job.quality = "full" THEN Len(f.data)
                        ELSE f.size
        info == StateOf(ui, "image-to-wav").resultInfo
    IN  /\ last.result.ratioNum = originalSize
        /\ last.result.ratioDen = payloadLength
        /\ info # Null
        /\ (info.compressionRatio # Undefined) <=>
             (originalSize > payloadLength)
        /\ info.compressionRatio # Undefined =>
             info.compressionRatio =
               [num |-> originalSize, den |-> payloadLength]

\* an 8-byte file of one pixel in quality "compressed": 8 / 7 is shown
RatioReportingWitness ==
  /\ last.handler = "resolved" /\ last.job.mode = "image-to-wav"
  /\ last.job.quality = "compressed"
  /\ ui.imageToWavState.resultInfo # Null
  /\ ui.imageToWavState.resultInfo.compressionRatio = [num |-> 8, den |-> 7]

\* the same image in quality "full": 4 / 4 is not shown
RatioOfOneNotShown ==
  /\ last.handler = "resolved" /\ last.job.mode = "image-to-wav"
  /\ last.result.ratioNum = 4 /\ last.result.ratioDen = 4
  /\ ui.imageToWavState.resultInfo # Null
  /\ ui.imageToWavState.resultInfo.compressionRatio = Undefined

\* a 5-byte file in quality "compressed": 5 / 7 is not shown
RatioBelowOneNotShown ==
  /\ last.handler = "resolved" /\ last.job.mode = "image-to-wav"
  /\ last.result.ratioNum = 5 /\ last.result.ratioDen = 7
  /\ ui.imageToWavState.resultInfo # Null
  /\ ui.imageToWavState.resultInfo.compressionRatio = Undefined

\* C16: when the conversion of a handleProcess call rejects, the state of
\* the mode the call was made in has the rejection's message as error and
\* isProcessing false, none of resultUrl, resultBlob and resultInfo comes
\* from that conversion, and the conversion is not waiting again.
NoPartialOutput ==
  last.handler = "rejected" =>
    LET st == StateOf(ui, last.job.mode)
    IN  /\ last.message # ""
        /\ st.error = [message |-> last.message]
        /\ ~st.isProcessing
        /\ st.resultUrl # Null => st.resultUrl.by # last.job.id
        /\ st.resultBlob # Null => st.resultBlob.by # last.job.id
        /\ st.resultInfo # Null => st.resultInfo.by # last.job.id
        /\ \A job \in pending : job.id # last.job.id

\* a file without "RIFF" given to wav-to-image mode
NoPartialOutputWitness ==
  /\ last.handler = "rejected" /\ last.job.mode = "wav-to-image"
  /\ ui.wavToImageState.error = [message |-> ErrRiff]
  /\ ui.wavToImageState.uploadedFile = last.job.file
  /\ ~ui.wavToImageState.isProcessing
  /\ ui.wavToImageState.resultUrl = Null
  /\ ui.wavToImageState.resultBlob = Null
  /\ ui.wavToImageState.resultInfo = Null
  /\ pending = {}

\* C21: for every 16-bit sample s, sampleToByte(s) lies in 0..255 and is
\* round(s / 256) + 128 clamped to that range, round taking halves up: a
\* byte b strictly between 0 and 255 comes from 256 * (b - 128) - 128 <= s <
\* 256 * (b - 128) + 128, 0 from every s below that range for b = 1, and 255
\* from every s at or above that range for b = 255.
SampleDecodeClamped ==
  pc = "sample_decoded" =>
    /\ probe.back \in 0..255
    /\ (probe.back > 0 /\ probe.back < 255) =>
          /\ 256 * (probe.back - 128) - 128 <= probe.sample
          /\ probe.sample < 256 * (probe.back - 128) + 128
    /\ probe.back = 0 => probe.sample < 256 * (1 - 128) - 128
    /\ probe.back = 255 => probe.sample >= 256 * (255 - 128) - 128
    /\ probe.sample > 32512 + 127 => probe.back = 255

\* 32640 / 256 = 127.5 rounds to 128, and 128 + 128 is clamped to 255
SampleDecodeClampedWitness ==
  pc = "sample_decoded" /\ probe.sample = 32640 /\ probe.back = 255

\* C22: on a buffer that starts with "RIFF" the scan never reads an index
\* outside the buffer, every pass moves the offset on by at least 8, so that
\* k passes need a buffer of more than 12 + 8 * k bytes, and the loop is
\* left either through the break, with a "data" tag just before the offset,
\* or with the offset at or past byteLength - 8; the result is the one
\* audioToImage goes on with.
ChunkScanTerminates ==
  pc \in {"scanning", "scanned"} =>
    LET buf == wav.bytes
        scan == probe.scan
    IN  /\ StartsWithRiff(buf)
        /\ scan.highest < Len(buf)
        /\ scan.offset >= 12 + 8 * scan.steps
        /\ scan.steps > 0 => 12 + 8 * scan.steps < Len(buf)
        /\ pc = "scanning" => scan.offset < Len(buf) - 8
        /\ pc = "scanned" =>
              /\ \/ /\ scan.found
                    /\ SubSeq(buf, scan.offset - 7, scan.offset - 4) = TagData
                 \/ /\ ~scan.found
                    /\ scan.offset >= Len(buf) - 8
              /\ ChunkScan(buf, 12) =
                   [offset |-> scan.offset, found |-> scan.found]

\* three chunks of size 0 and the fmt chunk passed before the data chunk
ChunkScanTerminatesWitness ==
  /\ pc = "scanned"
  /\ probe.scan.steps = 5
  /\ probe.scan.found
  /\ probe.scan.offset = 68

\* a chunk size that points past the end: the buffer is exhausted
ChunkScanExhausted ==
  /\ pc = "scanned"
  /\ probe.scan.steps = 1
  /\ ~probe.scan.found
  /\ probe.scan.offset = 220

\* the size the data chunk found by the scan declares
DeclaredDataSize == bytesToInt32(wav.bytes, dec.offset - 4)

\* the scan found a data chunk whose declared size is even and lies within
\* the file
WellFormedData ==
  /\ dec.found
  /\ Fits(DeclaredDataSize)
  /\ Val(DeclaredDataSize) % 2 = 0
  /\ dec.offset + Val(DeclaredDataSize) <= Len(wav.bytes)

\* C23: for a container with a well-formed data chunk, the samples the
\* decoder works on start right after the chunk's tag and size and are
\* exactly the declared-size / 2 samples of the chunk, also when other chunks
\* come before or after it.
ExactDataChunk ==
  (MagicRead /\ WellFormedData) =>
    /\ SubSeq(wav.bytes, dec.offset - 7, dec.offset - 4) = TagData
    /\ Len(dec.samples) = Val(DeclaredDataSize) \div 2
    /\ dec.samples =
         BytesToSamples(SubSeq(wav.bytes, dec.offset + 1,
                               dec.offset + Val(DeclaredDataSize)))

\* n = width * height * 4, computed without leaving the 32-bit range
ShapeBytes(width, height, n) ==
  /\ Fits(width) /\ Fits(height)
  /\ n % 4 = 0
  /\ IF Val(width) = 0 \/ Val(height) = 0
        THEN n = 0
        ELSE /\ Val(height) <= 2147483647 \div Val(width)
             /\ Val(width) * Val(height) = n \div 4

\* the byte count the header declares agrees with width * height * 4:
\* originalSize on the full path, width * height * channels on the legacy path
DeclaredAgrees ==
  IF dec.path = "full"
    THEN Fits(dec.declared) /\
         ShapeBytes(dec.width, dec.height, Val(dec.declared))
    ELSE \/ dec.declared = U32(4)
         \/ (Fits(dec.width) /\ Val(dec.width) = 0)
         \/ (Fits(dec.height) /\ Val(dec.height) = 0)

\* C24: an image returned by the full or the legacy path was built from
\* exactly width * height * 4 bytes for the width and height it is returned
\* with, and a header whose declared byte count disagrees with
\* width * height * 4 never ends in a returned image.
RawImagesWellShaped ==
  (pc = "done" /\ dec.path \in {"full", "legacy"}) =>
    /\ image.status = "ok" =>
          /\ image.width = dec.width /\ image.height = dec.height
          /\ ShapeBytes(image.width, image.height, image.data.size)
          /\ dec.path = "full" =>
                image.data.size = Len(dec.inflated.data)
    /\ ~DeclaredAgrees => image.status = "error"

\* a two-pixel image comes back through the full path
RawImagesWellShapedWitness ==
  /\ pc = "done" /\ dec.path = "full" /\ image.status = "ok"
  /\ image.data.size = 8

\* a legacy image comes back
RawLegacyReturned ==
  /\ pc = "done" /\ dec.path = "legacy" /\ image.status = "ok"
  /\ image.data.size >= 4

\* a full header whose originalSize matches the decompressed bytes but not
\* the dimensions is refused
RawFullDisagreementRefused ==
  /\ pc = "done" /\ dec.path = "full" /\ ~DeclaredAgrees
  /\ dec.inflated.ok
  /\ Fits(dec.declared) /\ Len(dec.inflated.data) = Val(dec.declared)
  /\ image.status = "error"

\* a legacy header with a channel count other than 4 is refused
RawLegacyDisagreementRefused ==
  /\ pc = "done" /\ dec.path = "legacy" /\ ~DeclaredAgrees
  /\ ~DimensionsInvalid(dec.width, dec.height)
  /\ image.status = "error"

\* C25: a step of handleModeChange, and every step that changes the active
\* mode, leaves the ModeState of both modes and the quality as they were and
\* ends with isPlaying false; only the mode and isPlaying can differ.
ModeSwitchPreserves ==
  [][(handleModeChange \/ ui'.mode # ui.mode) =>
       /\ ui'.mode \in Modes
       /\ ui'.isPlaying = FALSE
       /\ ui'.imageToWavState = ui.imageToWavState
       /\ ui'.wavToImageState = ui.wavToImageState
       /\ ui'.quality = ui.quality
       /\ ui' = [ui EXCEPT !.mode = ui'.mode, !.isPlaying = FALSE]
       /\ pending' = pending]_vars

\* back in the first mode with its result still there, after a file was
\* uploaded in the other mode
ModeSwitchPreservesWitness ==
  /\ ui.mode = "image-to-wav"
  /\ ui.wavToImageState.uploadedFile # Null
  /\ ui.imageToWavState.uploadedFile # Null
  /\ ui.imageToWavState.resultUrl # Null

OtherMode(mode) ==
  IF mode = "image-to-wav" THEN "wav-to-image" ELSE "image-to-wav"

\* C26: the step in which a conversion settles writes its result or its
\* error into the state of the mode the conversion was started in, whichever
\* mode is shown at that moment, and leaves the state of the other mode, the
\* mode and the quality as they were.
ConversionWritesOwnMode ==
  [][\A job \in pending \ pending' :
       LET own == StateOf(ui', job.mode)
       IN  /\ StateOf(ui', OtherMode(job.mode)) =
                StateOf(ui, OtherMode(job.mode))
           /\ ui'.mode = ui.mode /\ ui'.quality = ui.quality
           /\ ~own.isProcessing
           /\ last'.job = job /\ last'.active = ui.mode
           /\ \/ /\ last'.handler = "resolved"
                 /\ own.resultUrl = [by |-> job.id]
                 /\ own.resultBlob # Null /\ own.resultBlob.by = job.id
                 /\ own.resultInfo # Null /\ own.resultInfo.by = job.id
              \/ /\ last'.handler = "rejected"
                 /\ own.error = [message |-> last'.message]
                 /\ own.resultUrl = StateOf(ui, job.mode).resultUrl]_vars

\* a conversion started in image-to-wav mode resolved while wav-to-image
\* mode was shown; its result is in the image-to-wav state
ConversionWritesOwnModeWitness ==
  /\ last.handler = "resolved"
  /\ last.job.mode = "image-to-wav" /\ last.active = "wav-to-image"
  /\ ui.imageToWavState.resultUrl = [by |-> last.job.id]
  /\ ui.wavToImageState.resultUrl = Null

\* a conversion started in wav-to-image mode rejected while image-to-wav
\* mode was shown; its error is in the wav-to-image state
ConversionErrorInOwnMode ==
  /\ last.handler = "rejected"
  /\ last.job.mode = "wav-to-image" /\ last.active = "image-to-wav"
  /\ ui.wavToImageState.error = [message |-> last.message]
  /\ ui.imageToWavState.error = Null

\* C27: in each mode, a result that is shown comes with an uploaded file,
\* and the result the last conversion left in a mode was produced from the
\* file that mode holds.
ShownResultBelongs ==
  /\ \A m \in Modes :
       StateOf(ui, m).resultUrl # Null => StateOf(ui, m).uploadedFile # Null
  /\ last.handler = "resolved" =>
       LET st == StateOf(ui, last.job.mode)
       IN  st.resultUrl = [by |-> last.job.id] =>
             st.uploadedFile = last.job.file

\* the handleProcess call numbered id is waiting for its conversion
Awaiting(id) == \E job \in pending : job.id = id

\* the continuation of call id has just run and left isProcessing false in
\* the state of the mode the call started in
Ended(id) ==
  /\ last.handler \in {"resolved", "rejected"}
  /\ last.job.id = id
  /\ ~StateOf(ui, last.job.mode).isProcessing

\* the conversion of a waiting call has an outcome, a value or an error
HasOutcome(job) ==
  \E c0 \in {Started(InputOf(job))} :
  \E c1 \in {Step(c0)} :
  \E c2 \in {Step(c1)} :
  \E c3 \in {Step(c2)} :
    /\ IsSettled(c3)
    /\ IF job.mode = "image-to-wav"
         THEN c3.audio.status \in {"ok", "error"}
         ELSE c3.image.status \in {"ok", "error"}

\* C28: a handleProcess call with an uploaded file sets isProcessing in its
\* mode and waits for the conversion; once the conversion settles, by
\* resolving or by rejecting, isProcessing is false again in that mode's
\* state.  A handleProcess call with no uploaded file changes no state.
ProcessingEnds ==
  /\ [][(last' # last /\ last'.handler = "handleProcess") =>
          IF last'.started
            THEN /\ StateOf(ui, last'.mode).uploadedFile # Null
                 /\ StateOf(ui', last'.mode).isProcessing
                 /\ last'.job \in pending' \ pending
                 /\ last'.job.mode = last'.mode
            ELSE /\ StateOf(ui, last'.mode).uploadedFile = Null
                 /\ ui' = ui /\ pending' = pending
                 /\ conversions' = conversions]_vars
  /\ [](\A job \in pending : HasOutcome(job))
  /\ \A id \in 1..MaxConversions : Awaiting(id) ~> Ended(id)

\* a conversion resolved and one rejected, each leaving isProcessing false
ProcessingEndsWitness ==
  /\ Ended(conversions)
  /\ last.handler = "resolved"
  /\ pending = {}
  /\ StateOf(ui, last.job.mode).resultUrl = [by |-> last.job.id]

ProcessingEndsOnFailure ==
  /\ Ended(conversions)
  /\ last.handler = "rejected"
  /\ pending = {}

\* handleProcess was called with no file uploaded
ProcessWithoutFile ==
  /\ last.handler = "handleProcess" /\ ~last.started
  /\ ui = InitialUi

\* C29: a handleFileChange step with a non-empty list leaves the first file
\* of the list as uploadedFile of the current mode with resultUrl,
\* resultBlob, error and resultInfo null, and changes nothing in the other
\* mode; with an empty list it changes no state at all.
SelectionClears ==
  [][(last' # last /\ last'.handler = "handleFileChange") =>
       IF last'.count > 0
         THEN LET own == StateOf(ui', ui.mode)
              IN  /\ last'.mode = ui.mode
                  /\ own.uploadedFile = last'.first
                  /\ own.resultUrl = Null /\ own.resultBlob = Null
                  /\ own.error = Null /\ own.resultInfo = Null
                  /\ StateOf(ui', OtherMode(ui.mode)) =
                       StateOf(ui, OtherMode(ui.mode))
                  /\ ui'.mode = ui.mode /\ ui'.quality = ui.quality
                  /\ ui'.isPlaying = ui.isPlaying
                  /\ pending' = pending /\ conversions' = conversions
         ELSE /\ ui' = ui /\ pending' = pending
              /\ conversions' = conversions]_vars

\* a file was selected from a list of two while the mode still held the
\* outcome of an earlier conversion
SelectionClearsWitness ==
  /\ last.handler = "handleFileChange" /\ last.count = 2
  /\ last.outcome
  /\ StateOf(ui, last.mode).uploadedFile = last.first
  /\ StateOf(ui, last.mode).resultUrl = Null
  /\ StateOf(ui, last.mode).error = Null

\* handleFileChange ran with an empty list while the other mode held a file
SelectionOfNothing ==
  /\ last.handler = "handleFileChange" /\ last.count = 0
  /\ StateOf(ui, last.mode).uploadedFile = Null
  /\ StateOf(ui, OtherMode(last.mode)).uploadedFile # Null

=============================================================================
